---- MODULE Spec2Model ----
(***************************************************************************)
(* A model of the label/dataset core of defect_viewer:                     *)
(*   - the atomic JSON record store   (backend/app/utils/json_io.py)       *)
(*   - the session store and the global class registry                     *)
(*                                    (app/services/session_store.py)      *)
(*   - the per-session training precheck, the accumulated and the global   *)
(*     dataset builders                (app/services/dataset_builder.py)   *)
(*   - pruning and rotation of the accumulated corpus (app/api/routes.py)  *)
(*   - the model cache                 (app/services/model_manager.py)     *)
(*                                                                         *)
(* Conventions.                                                            *)
(*   A file is [exists, n, doc]: the first n of Chunks chunks of the JSON  *)
(*   text of doc are on disk.  n = Chunks is a complete text, n = 0 an     *)
(*   empty file, 0 < n < Chunks a truncated (unparseable) text.            *)
(*   A JSON value is a record tagged by its field t.                       *)
(*   Coordinates are integers in units of 10^-7, so that rounding to six   *)
(*   decimals (_round6) is not the identity.                               *)
(*   Class names are strings of a finite universe; the Cyrillic names of   *)
(*   the source are transliterated ("prochee" is the sentinel class).      *)
(***************************************************************************)
EXTENDS Integers, Sequences, FiniteSets, TLC

VARIABLES
    disk,         \* SpecStore: path -> file, the directory of one JSON record
    wr,           \* SpecStore: writer -> position in atomic_write_json
    rd,           \* outcome of the last atomic_read_json call
    classesFile,  \* data/classes.json, the global class registry
    sessionFile,  \* data/sessions/<id>.json
    ret,          \* outcome of the last session-store operation
    uploads,      \* stored names of the photo files present under data/uploads
    th,           \* SpecConc: thread -> position and locals in set_photo_labels
    nops,         \* number of operations run so far
    sessionFile2, \* data/sessions/<id>.json of a second session
    blobs,        \* <<session id, stored name>> -> the photo file under data/uploads
    accum,        \* the accumulated corpus, data/datasets/_accumulated
    arch,         \* names of the archives under data/datasets/_accumulated_archive
    gds,          \* the global corpus, data/datasets/yolo_det
    gb,           \* SpecGlobal: position and locals of the global build
    mm,           \* SpecModel: the fields and the load lock of the ModelManager
    tj            \* the train job ledger: job files, index, lock, clock, boot id

storeVars == <<disk, wr>>
sessVars == <<classesFile, sessionFile, uploads, ret, th, nops>>
dsVars == <<sessionFile2, blobs, accum, arch, gds, gb, mm, tj>>
vars == <<storeVars, rd, sessVars, dsVars>>

-----------------------------------------------------------------------------
(* Bounds *)

Chunks == 2        \* chunks in which a JSON text reaches the disk
NWriters == 2      \* concurrent callers of atomic_write_json
NDocs == 2         \* distinct values handed to atomic_write_json
MaxOps == 2        \* session-store operations per behaviour

-----------------------------------------------------------------------------
(* JSON values and files *)

\* "x = e; body": e is evaluated once and body sees its value.
Bind(e, body(_)) == CHOOSE out \in {body(x) : x \in {e}} : TRUE

NoneVal == [t |-> "none"]
EmptyDict == [t |-> "empty_dict"]

Missing == [exists |-> FALSE, n |-> 0, doc |-> NoneVal]
EmptyFile == [exists |-> TRUE, n |-> 0, doc |-> NoneVal]
FullFile(d) == [exists |-> TRUE, n |-> Chunks, doc |-> d]
TruncatedFile(d) == [exists |-> TRUE, n |-> 1, doc |-> d]

IsComplete(f) == f.exists /\ f.n = Chunks

Returned(v) == [raised |-> "", val |-> v]
Raised(e) == [raised |-> e, val |-> NoneVal]

\* json_io.py:39-53.  default = NoneVal is Python's None (no default).
atomic_read_json(f, default) ==
    IF ~f.exists
    THEN IF default # NoneVal THEN Returned(default)
         ELSE Raised("FileNotFoundError")
    ELSE IF f.n = 0
    THEN Returned(IF default # NoneVal THEN default ELSE EmptyDict)
    ELSE IF f.n < Chunks
    THEN Raised("JSONDecodeError")
    ELSE Returned(f.doc)

-----------------------------------------------------------------------------
(* atomic_write_json, step by step (SpecStore) *)

Writers == 1..NWriters
StoreDocs == {[t |-> "dict", v |-> i] : i \in 1..NDocs}
Dest == <<"dest", 0>>
Paths == {Dest} \cup {<<"tmp", w>> : w \in Writers}

\* A mutant: the text is written in place.
mkstemp_in_place(w) == Dest

\* json_io.py:24: a fresh sibling temp file, one per call.
mkstemp(w) == <<"tmp", w>>

\* json_io.py:24
WriteBegin(w, d) ==
    /\ wr[w].pc = "idle"
    /\ wr' = [wr EXCEPT ![w] = [pc |-> "open", data |-> d]]
    /\ disk' = [disk EXCEPT ![mkstemp(w)] = [exists |-> TRUE, n |-> 0, doc |-> d]]
    /\ UNCHANGED <<dsVars, rd, sessVars>>

\* json_io.py:26-28: json.dump through the buffered file, then flush
WriteChunk(w) ==
    /\ wr[w].pc = "open"
    /\ disk[mkstemp(w)].n < Chunks
    /\ disk' = [disk EXCEPT ![mkstemp(w)].n = @ + 1]
    /\ UNCHANGED <<dsVars, wr, rd, sessVars>>

\* json_io.py:29: fsync, and the file is closed
WriteSync(w) ==
    /\ wr[w].pc = "open"
    /\ disk[mkstemp(w)].n = Chunks
    /\ wr' = [wr EXCEPT ![w].pc = "synced"]
    /\ UNCHANGED <<dsVars, disk, rd, sessVars>>

\* json_io.py:30-36: os.replace, then the finally block finds no temp file
WriteReplace(w) ==
    /\ wr[w].pc = "synced"
    /\ disk' = [p \in Paths |->
                  IF p = Dest THEN disk[mkstemp(w)]
                  ELSE IF p = mkstemp(w) THEN Missing
                  ELSE disk[p]]
    /\ wr' = [wr EXCEPT ![w].pc = "idle"]
    /\ UNCHANGED <<dsVars, rd, sessVars>>

\* json_io.py:31-36: an OSError while writing or replacing; the finally block
\* removes the temp file and the error propagates
WriteFail(w) ==
    /\ wr[w].pc \in {"open", "synced"}
    /\ disk' = [disk EXCEPT ![mkstemp(w)] = Missing]
    /\ wr' = [wr EXCEPT ![w].pc = "idle"]
    /\ UNCHANGED <<dsVars, rd, sessVars>>

\* The process dies at any step: no writer moves again, the files stay as they are.
Crash ==
    /\ \E w \in Writers : wr[w].pc # "dead"
    /\ wr' = [w \in Writers |-> [wr[w] EXCEPT !.pc = "dead"]]
    /\ UNCHANGED <<dsVars, disk, rd, sessVars>>

\* A reader of the destination (json_io.py:39-53)
ReadDest(default) ==
    /\ rd' = [default |-> default, file |-> disk[Dest],
              out |-> atomic_read_json(disk[Dest], default)]
    /\ UNCHANGED <<dsVars, storeVars, sessVars>>

NoRead == [default |-> NoneVal, file |-> Missing, out |-> Returned(NoneVal)]
NoRet == [op |-> "none"]

\* No corpus, no archive, no second session, no build, no model.
DsIdle ==
    /\ sessionFile2 = [exists |-> FALSE, n |-> 0, doc |-> [t |-> "none"]]
    /\ blobs = <<>>
    /\ accum = [t |-> "none"]
    /\ arch = {}
    /\ gds = [t |-> "none"]
    /\ gb = [pc |-> "idle"]
    /\ mm = [t |-> "none"]
    /\ tj = [t |-> "none"]

StoreIdle ==
    /\ disk = [p \in Paths |-> Missing]
    /\ wr = [w \in Writers |-> [pc |-> "idle", data |-> NoneVal]]

SessIdle ==
    /\ classesFile = Missing
    /\ sessionFile = Missing
    /\ uploads = {}
    /\ ret = NoRet
    /\ th = <<>>
    /\ nops = 0

InitStore ==
    /\ disk \in {[p \in Paths |-> IF p = Dest THEN f ELSE Missing] :
                   f \in {Missing} \cup {FullFile(d) : d \in StoreDocs}}
    /\ wr = [w \in Writers |-> [pc |-> "idle", data |-> NoneVal]]
    /\ rd = NoRead
    /\ DsIdle
    /\ SessIdle

NextStore ==
    \/ \E w \in Writers, d \in StoreDocs : WriteBegin(w, d)
    \/ \E w \in Writers : WriteChunk(w)
    \/ \E w \in Writers : WriteSync(w)
    \/ \E w \in Writers : WriteReplace(w)
    \/ \E w \in Writers : WriteFail(w)
    \/ Crash
    \/ \E default \in {NoneVal, EmptyDict} : ReadDest(default)

SpecStore == InitStore /\ [][NextStore]_vars

\* C1: at every step of every atomic_write_json call, also after a crash at any
\* step, the destination is absent (as it was before the first write) or holds
\* the complete text of the previous or of a new value, and a reader of the
\* destination never gets a decode error.
C1_DestinationNeverPartial ==
    /\ disk[Dest] \in {Missing} \cup {FullFile(d) : d \in StoreDocs}
    /\ rd.out.raised # "JSONDecodeError"

\* C1 witness: the process crashed while a temp file was half written, and a
\* reader then read the destination.
C1_Witness ==
    /\ \E w \in Writers :
          /\ wr[w].pc = "dead"
          /\ disk[<<"tmp", w>>].exists
          /\ disk[<<"tmp", w>>].n \in 1..(Chunks - 1)
    /\ IsComplete(disk[Dest])
    /\ rd.file = disk[Dest]
    /\ rd.out = Returned(disk[Dest].doc)

-----------------------------------------------------------------------------
(* Class names *)

\* Python's None for an optional string field.
None == "None"

\* session_store.py:13-24, transliterated.
DEFECT_CLASSES_RU ==
    << "treshchiny", "protechki/vysoly", "ogolenie armatury", "korroziya",
       "skoly/razrusheniya", "otsloenie/obrushenie", "deformaciya",
       "gribok/plesen", "narushenie shvov", "prochee" >>

\* The sentinel class, the literal of session_store.py:283, 342, 548, 618.
PROCHEE == "prochee"

\* session_store.py:35-38: strip, and collapse inner whitespace.  On the
\* universe of names of this model: the names written with surrounding or
\* doubled blanks, and the blank name.
_norm_cls(name) ==
    CASE name = " korroziya " -> "korroziya"
      [] name = "novyj  klass" -> "novyj klass"
      [] name = " Novyj klass" -> "Novyj klass"
      [] name = "  " -> ""
      [] OTHER -> name

\* str.lower() on the universe of names of this model.
Lower(s) ==
    CASE s = "Korroziya" -> "korroziya"
      [] s = "Novyj klass" -> "novyj klass"
      [] s = "Prochee" -> "prochee"
      [] OTHER -> s

\* session_store.py:41-42
_norm_key(name) == Lower(_norm_cls(name))

\* len(cls) on the universe of names: "" is empty, "x" has one character,
\* every other name has at least two.
StrLen(s) == CASE s = "" -> 0 [] s = "x" -> 1 [] OTHER -> 2

\* isinstance(x, str): "#7" stands for a JSON number in a list of names.
IsStr(x) == x # "#7"

RECURSIVE SeqToSet(_)
SeqToSet(xs) == IF xs = <<>> THEN {} ELSE {Head(xs)} \cup SeqToSet(Tail(xs))

RECURSIVE MapNormCls(_)
\* [_norm_cls(x) for x in xs if isinstance(x, str) and _norm_cls(x)]
MapNormCls(xs) ==
    IF xs = <<>> THEN <<>>
    ELSE IF IsStr(Head(xs)) /\ _norm_cls(Head(xs)) # ""
         THEN <<_norm_cls(Head(xs))>> \o MapNormCls(Tail(xs))
         ELSE MapNormCls(Tail(xs))

Keys(xs) == {_norm_key(xs[i]) : i \in DOMAIN xs}

-----------------------------------------------------------------------------
(* The global class registry, data/classes.json *)

RegistryDoc(classes) == [t |-> "registry", classes_ok |-> TRUE, classes |-> classes]

\* session_store.py:144-165.  Returns the file afterwards and the list.
get_global_classes(cf) ==
    IF ~cf.exists
    THEN [file |-> FullFile(RegistryDoc(DEFECT_CLASSES_RU)), out |-> DEFECT_CLASSES_RU]
    ELSE LET r == atomic_read_json(cf, EmptyDict)
             good == /\ r.raised = ""
                     /\ r.val.t = "registry"
                     /\ r.val.classes_ok
                     /\ r.val.classes # <<>>
         IN  IF good
             THEN LET out == MapNormCls(r.val.classes)
                  IN  [file |-> cf,
                       out |-> IF out # <<>> THEN out ELSE DEFECT_CLASSES_RU]
             ELSE [file |-> FullFile(RegistryDoc(DEFECT_CLASSES_RU)),
                   out |-> DEFECT_CLASSES_RU]

\* session_store.py:168-169
_write_global_classes(classes) == FullFile(RegistryDoc(classes))

\* session_store.py:172-187
add_global_class(cf, name) ==
    Bind(get_global_classes(cf), LAMBDA g :
    LET cls == _norm_cls(name)
        cur == g.out
    IN  IF cls = "" THEN g
        ELSE IF _norm_key(cls) \in Keys(cur) THEN g
        ELSE [file |-> _write_global_classes(Append(cur, cls)),
              out |-> Append(cur, cls)])

RECURSIVE RenameLoopNoSeen(_, _, _, _, _)
\* A mutant: the loop without its seen set.
RenameLoopNoSeen(cur, a, b, replaced, seen) ==
    IF cur = <<>> THEN <<>>
    ELSE IF ~replaced /\ _norm_key(Head(cur)) = _norm_key(a)
         THEN <<b>> \o RenameLoopNoSeen(Tail(cur), a, b, TRUE, seen)
         ELSE <<Head(cur)>> \o RenameLoopNoSeen(Tail(cur), a, b, replaced, seen)

RECURSIVE RenameLoop(_, _, _, _, _)
\* session_store.py:209-226: the loop over cur, with its locals replaced, seen
RenameLoop(cur, a, b, replaced, seen) ==
    IF cur = <<>> THEN <<>>
    ELSE LET x == Head(cur)
             k == _norm_key(x)
         IN  IF ~replaced /\ k = _norm_key(a)
             THEN IF _norm_key(b) \in seen
                  THEN RenameLoop(Tail(cur), a, b, TRUE, seen)
                  ELSE <<b>> \o RenameLoop(Tail(cur), a, b, TRUE,
                                           seen \cup {_norm_key(b)})
             ELSE IF k \in seen
                  THEN RenameLoop(Tail(cur), a, b, replaced, seen)
                  ELSE <<x>> \o RenameLoop(Tail(cur), a, b, replaced,
                                           seen \cup {k})

\* session_store.py:190-232
rename_global_class(cf, frm, to) ==
    Bind(get_global_classes(cf), LAMBDA g :
    LET a == _norm_cls(frm)
        b == _norm_cls(to)
        cur == g.out
    IN  IF a = "" \/ b = "" THEN g
        ELSE IF _norm_key(a) \notin Keys(cur)
        THEN IF _norm_key(b) \notin Keys(cur)
             THEN [file |-> _write_global_classes(Append(cur, b)),
                   out |-> Append(cur, b)]
             ELSE [file |-> g.file, out |-> cur]
        ELSE Bind(RenameLoop(cur, a, b, FALSE, {}), LAMBDA out0 :
             LET out == IF out0 = <<>> THEN DEFECT_CLASSES_RU ELSE out0
             IN  [file |-> _write_global_classes(out), out |-> out]))

-----------------------------------------------------------------------------
(* Bounding boxes *)

\* 1.0 in the unit of the coordinates, 10^-7.
One == 10 ^ 7

\* A value float() rejects; float(v) of anything else is v.
NotANumber == 0 - 10 ^ 9

\* Python's None for the optional number conf.
NoConf == 0 - 10 ^ 8

Max(a, b) == IF a > b THEN a ELSE b
Min(a, b) == IF a < b THEN a ELSE b

\* session_store.py:494-495
_clamp01(x) == IF x < 0 THEN 0 ELSE IF x > One THEN One ELSE x

\* session_store.py:498-499: "%.6f" rounds to the nearest multiple of 10^-6
\* (to the even one on a tie); its argument is never negative here.
_round6(x) ==
    LET q == x \div 10
        r == x % 10
    IN  IF r < 5 THEN 10 * q
        ELSE IF r > 5 THEN 10 * (q + 1)
        ELSE IF q % 2 = 0 THEN 10 * q ELSE 10 * (q + 1)

\* session_store.py:502-506
_safe_float(v, default) == IF v = NotANumber THEN default ELSE v

\* session_store.py:509-522
_normalize_xywh(x, y, w, h) ==
    LET w1 == _clamp01(Max(0, w))
        h1 == _clamp01(Max(0, h))
        x1 == _clamp01(x)
        y1 == _clamp01(y)
    IN  [x |-> _clamp01(Min(x1, One - w1)),
         y |-> _clamp01(Min(y1, One - h1)),
         w |-> w1,
         h |-> h1]

\* dict.get(k, default)
Get(b, k, default) == IF k \in DOMAIN b THEN b[k] ELSE default

\* x or y, for optional strings
Or(x, y) == IF x # None /\ x # "" THEN x ELSE y

\* session_store.py:547-560, 567-584: the canonical bbox of one raw bbox
CanonBBox(b) ==
    LET cls0 == Or(Get(b, "cls", None), Or(Get(b, "class", None),
                   Or(Get(b, "name", None), "")))
        cls == IF _norm_cls(cls0) # "" THEN _norm_cls(cls0) ELSE PROCHEE
        g == _normalize_xywh(_safe_float(Get(b, "x", 0), 0),
                             _safe_float(Get(b, "y", 0), 0),
                             _safe_float(Get(b, "w", 0), 0),
                             _safe_float(Get(b, "h", 0), 0))
        conf0 == Get(b, "conf", Get(b, "confidence", NoConf))
    IN  [id |-> Get(b, "id", None),
         cls |-> cls,
         x |-> _round6(g.x), y |-> _round6(g.y),
         w |-> _round6(g.w), h |-> _round6(g.h),
         conf |-> IF conf0 = NoConf THEN NoConf
                  ELSE _clamp01(_safe_float(conf0, 0)),
         source |-> Get(b, "source", None),
         polygon |-> Get(b, "polygon", None)]

\* session_store.py:562
BBoxKey(c) == <<_norm_key(c.cls), c.x, c.y, c.w, c.h>>

RECURSIVE DedupeLoop(_, _)
\* session_store.py:543-586: the loop with its local seen
DedupeLoop(bboxes, seen) ==
    IF bboxes = <<>> THEN <<>>
    ELSE Bind(CanonBBox(Head(bboxes)), LAMBDA c :
         IF "not_a_dict" \in DOMAIN Head(bboxes) \/ BBoxKey(c) \in seen
         THEN DedupeLoop(Tail(bboxes), seen)
         ELSE <<c>> \o DedupeLoop(Tail(bboxes), seen \cup {BBoxKey(c)}))

\* session_store.py:525-586
dedupe_bboxes(bboxes) == DedupeLoop(bboxes, {})

-----------------------------------------------------------------------------
(* Session records, data/sessions/<id>.json *)

\* A key that the stored JSON object does not have.
Absent == "absent"

AbsentLabels ==
    [decision |-> Absent, comment |-> Absent, bboxes_is_list |-> FALSE,
     bboxes |-> <<>>]

\* session_store.py:473-481: the labels of a new photo.  comment stands for the
\* five keys has_defect, category, place, comment, recommendedFix, which the
\* code treats alike.
NewLabels ==
    [decision |-> None, comment |-> None, bboxes_is_list |-> TRUE,
     bboxes |-> <<>>]

\* session_store.py:468-482
NewPhoto(photo_id, stored_name) ==
    [is_dict |-> TRUE, photo_id |-> photo_id, stored_name |-> stored_name,
     labels_is_dict |-> TRUE, labels |-> NewLabels]

SessionDoc(sid, created, classes, photos) ==
    [t |-> "session", session_id |-> sid, created_at |-> created,
     classes_is_list |-> TRUE, classes |-> classes,
     photos_is_list |-> TRUE, photos |-> photos]

\* The JSON object {} read as a session.
AsSession(s) ==
    IF s.t = "empty_dict"
    THEN [t |-> "session", session_id |-> "", created_at |-> 0,
          classes_is_list |-> FALSE, classes |-> <<>>,
          photos_is_list |-> FALSE, photos |-> <<>>]
    ELSE s

\* session_store.py:31-32: the clock is the number of operations run.
_now_iso(now) == now

\* session_store.py:99-117
FixLabels(ph) ==
    LET l == IF ph.labels_is_dict THEN ph.labels ELSE AbsentLabels
    IN  [decision |-> IF l.decision = Absent THEN None ELSE l.decision,
         comment |-> IF l.comment = Absent THEN None ELSE l.comment,
         bboxes_is_list |-> TRUE,
         bboxes |-> IF l.bboxes_is_list THEN l.bboxes ELSE <<>>]

RECURSIVE FixPhotos(_)
\* session_store.py:89-118
FixPhotos(photos) ==
    IF photos = <<>> THEN <<>>
    ELSE LET ph == Head(photos)
         IN  IF ~ph.is_dict \/ ph.photo_id = "" \/ ph.photo_id = None
             THEN FixPhotos(Tail(photos))
             ELSE <<[ph EXCEPT !.labels_is_dict = TRUE, !.labels = FixLabels(ph)]>>
                  \o FixPhotos(Tail(photos))

\* session_store.py:54-121
_ensure_session_shape(s0, session_id, base_classes, now) ==
    IF s0.t \notin {"session", "empty_dict"}
    THEN SessionDoc(session_id, _now_iso(now), base_classes, <<>>)
    ELSE LET s == AsSession(s0)
             cleaned == MapNormCls(s.classes)
         IN  [t |-> "session",
              session_id |-> IF s.session_id # "" THEN s.session_id ELSE session_id,
              created_at |-> IF s.created_at # 0 THEN s.created_at ELSE _now_iso(now),
              classes_is_list |-> TRUE,
              classes |-> IF ~s.classes_is_list THEN base_classes
                          ELSE IF cleaned # <<>> THEN cleaned ELSE base_classes,
              photos_is_list |-> TRUE,
              photos |-> FixPhotos(IF s.photos_is_list THEN s.photos ELSE <<>>)]

\* session_store.py:397-406
create_session(cf, session_id, now) ==
    Bind(get_global_classes(cf), LAMBDA g :
    LET s == SessionDoc(session_id, _now_iso(now), g.out, <<>>)
    IN  [cf |-> g.file, sf |-> FullFile(s), out |-> s])

\* A mutant: the repaired record is not written back.
RepairNotPersisted(sf, raw, fixed) == sf

\* session_store.py:428-433
PersistRepair(sf, raw, fixed) == IF raw # fixed THEN FullFile(fixed) ELSE sf

\* session_store.py:409-435
load_session(cf, sf, session_id, now) ==
    IF ~sf.exists THEN create_session(cf, session_id, now)
    ELSE Bind(atomic_read_json(sf, NoneVal), LAMBDA r :
         Bind(IF r.raised # "" THEN NoneVal ELSE r.val, LAMBDA raw :
         Bind(get_global_classes(cf), LAMBDA g :
         Bind(_ensure_session_shape(raw, session_id, g.out, now), LAMBDA fixed :
         [cf |-> g.file, sf |-> PersistRepair(sf, raw, fixed), out |-> fixed]))))

\* session_store.py:438-440
save_session(cf, sf, session_id, data, now) ==
    Bind(get_global_classes(cf), LAMBDA g :
    [cf |-> g.file,
     sf |-> FullFile(_ensure_session_shape(data, session_id, g.out, now))])

RECURSIVE FindFrom(_, _, _)
FindFrom(photos, photo_id, i) ==
    IF i > Len(photos) THEN 0
    ELSE IF photos[i].is_dict /\ photos[i].photo_id = photo_id THEN i
    ELSE FindFrom(photos, photo_id, i + 1)

\* A mutant: a photo that is not found is taken to be the first one.
find_photo_or_first(session, photo_id) ==
    IF FindFrom(session.photos, photo_id, 1) # 0 THEN FindFrom(session.photos, photo_id, 1)
    ELSE IF session.photos # <<>> THEN 1 ELSE 0

\* session_store.py:443-447: the index of the first photo with this id, 0 if none
find_photo(session, photo_id) == FindFrom(session.photos, photo_id, 1)

\* session_store.py:450-487
add_photo(cf, sf, session_id, photo_id, stored_name, now) ==
    Bind(load_session(cf, sf, session_id, now), LAMBDA L :
    LET s == L.out
        ph == NewPhoto(photo_id, stored_name)
    IN  IF find_photo(s, photo_id) # 0
        THEN [cf |-> L.cf, sf |-> L.sf, out |-> s.photos[find_photo(s, photo_id)]]
        ELSE Bind(save_session(L.cf, L.sf, session_id,
                               [s EXCEPT !.photos = Append(s.photos, ph)], now),
                  LAMBDA S : [cf |-> S.cf, sf |-> S.sf, out |-> ph]))

\* session_store.py:239-249
get_session_classes(cf, sf, session_id, now) ==
    Bind(load_session(cf, sf, session_id, now), LAMBDA L :
    Bind(get_global_classes(L.cf), LAMBDA g :
    LET xs == L.out.classes
        out == MapNormCls(xs)
    IN  IF xs # <<>> /\ (\A i \in DOMAIN xs : IsStr(xs[i])) /\ out # <<>>
        THEN [cf |-> L.cf, sf |-> L.sf, out |-> out]
        ELSE [cf |-> g.file, sf |-> L.sf, out |-> g.out]))

RECURSIVE AppendMissing(_, _)
\* session_store.py:272-276: append the global names the session does not have
AppendMissing(xs, global_list) ==
    IF global_list = <<>> THEN xs
    ELSE IF _norm_key(Head(global_list)) \notin Keys(xs)
         THEN AppendMissing(Append(xs, Head(global_list)), Tail(global_list))
         ELSE AppendMissing(xs, Tail(global_list))

\* session_store.py:252-288
add_class_to_session(cf, sf, session_id, name, now) ==
    LET cls == _norm_cls(name)
    IN  IF cls = "" THEN get_session_classes(cf, sf, session_id, now)
        ELSE Bind(add_global_class(cf, cls), LAMBDA G :
             Bind(load_session(G.file, sf, session_id, now), LAMBDA L :
             Bind(IF L.out.classes = <<>> THEN G.out
                  ELSE AppendMissing(MapNormCls(L.out.classes), G.out), LAMBDA xs1 :
             Bind(IF _norm_key(cls) \notin Keys(xs1)
                  THEN Append(xs1, cls) ELSE xs1, LAMBDA xs2 :
             Bind(IF _norm_key(PROCHEE) \notin Keys(xs2)
                  THEN Append(xs2, PROCHEE) ELSE xs2, LAMBDA xs3 :
             Bind(save_session(L.cf, L.sf, session_id,
                               [L.out EXCEPT !.classes = xs3], now), LAMBDA S :
             [cf |-> S.cf, sf |-> S.sf, out |-> xs3]))))))

RECURSIVE AddClasses(_, _, _, _, _)
\* session_store.py:617-619: add_class_to_session for every deduped bbox
AddClasses(cf, sf, session_id, deduped, now) ==
    IF deduped = <<>> THEN [cf |-> cf, sf |-> sf]
    ELSE LET c0 == _norm_cls(Head(deduped).cls)
             cls == IF c0 # "" THEN c0 ELSE PROCHEE
         IN  Bind(add_class_to_session(cf, sf, session_id, cls, now), LAMBDA A :
             AddClasses(A.cf, A.sf, session_id, Tail(deduped), now))

\* session_store.py:609-611: one patched key
Patched(labels, patch, k) == IF k \in DOMAIN patch THEN patch[k] ELSE labels[k]

\* A mutant: the new bboxes are appended to the stored ones.
AppendBBoxes(old, deduped) == old \o deduped

\* session_store.py:621: the list is replaced
ReplaceBBoxes(old, deduped) == deduped

\* session_store.py:605-623: the labels after the patch
PatchLabels(labels, patch) ==
    [decision |-> Patched(labels, patch, "decision"),
     comment |-> Patched(labels, patch, "comment"),
     bboxes_is_list |-> TRUE,
     bboxes |-> IF "bboxes" \in DOMAIN patch
                THEN ReplaceBBoxes(labels.bboxes, dedupe_bboxes(patch.bboxes))
                ELSE labels.bboxes]

\* session_store.py:589-632
set_photo_labels(cf, sf, session_id, photo_id, patch, now) ==
    Bind(load_session(cf, sf, session_id, now), LAMBDA L :
    Bind(find_photo(L.out, photo_id), LAMBDA i :
    IF i = 0
    THEN [cf |-> L.cf, sf |-> L.sf, err |-> "KeyError"]
    ELSE Bind(IF "bboxes" \in DOMAIN patch
              THEN AddClasses(L.cf, L.sf, session_id,
                              dedupe_bboxes(patch.bboxes), now)
              ELSE [cf |-> L.cf, sf |-> L.sf], LAMBDA A :
         Bind([L.out EXCEPT !.photos[i].labels =
                               PatchLabels(L.out.photos[i].labels, patch)], LAMBDA s2 :
         Bind(save_session(A.cf, A.sf, session_id, s2, now), LAMBDA S :
         [cf |-> S.cf, sf |-> S.sf, err |-> ""])))))

\* session_store.py:124-130: "" when the name is accepted
_validate_class_name_or_400(name) ==
    IF _norm_cls(name) = "" \/ StrLen(_norm_cls(name)) < 2 THEN "ValueError" ELSE ""

RECURSIVE SessRenameLoop(_, _, _, _, _)
\* session_store.py:321-334
SessRenameLoop(xs, a, b, replaced, seen) ==
    IF xs = <<>> THEN <<>>
    ELSE LET x == Head(xs)
             nx0 == _norm_cls(x)
             hit == ~replaced /\ _norm_key(nx0) = _norm_key(a)
             nx == IF hit THEN b ELSE nx0
             k == _norm_key(nx)
         IN  IF ~IsStr(x) \/ nx0 = ""
             THEN SessRenameLoop(Tail(xs), a, b, replaced, seen)
             ELSE IF k \in seen
             THEN SessRenameLoop(Tail(xs), a, b, replaced \/ hit, seen)
             ELSE <<nx>> \o SessRenameLoop(Tail(xs), a, b, replaced \/ hit,
                                           seen \cup {k})

\* session_store.py:368-378: one bbox of a photo
RenameBBox(bb, a, b) ==
    LET raw == IF Get(bb, "cls", None) # None THEN bb.cls ELSE Get(bb, "class", None)
        cls0 == _norm_cls(IF raw = None THEN "" ELSE raw)
    IN  IF cls0 # "" /\ _norm_key(cls0) = _norm_key(a)
        THEN [k \in DOMAIN bb \cup {"cls"} |->
                IF k \in {"cls", "class"} THEN b ELSE bb[k]]
        ELSE bb

\* A mutant: the bboxes are not deduplicated after the replacement.
KeepAfterRename(bxs) == bxs

\* session_store.py:380-386
DedupeAfterRename(bxs) == dedupe_bboxes(bxs)

\* session_store.py:353-386: one photo
RenamePhoto(ph, a, b) ==
    Bind([j \in DOMAIN ph.labels.bboxes |-> RenameBBox(ph.labels.bboxes[j], a, b)],
         LAMBDA bxs2 :
         IF bxs2 # ph.labels.bboxes
         THEN [ph EXCEPT !.labels.bboxes = DedupeAfterRename(bxs2)]
         ELSE ph)

\* session_store.py:291-390
rename_class_in_session(cf, sf, session_id, frm, to, now) ==
    LET a == _norm_cls(frm)
        b == _norm_cls(to)
    IN  IF _validate_class_name_or_400(frm) # "" \/ _validate_class_name_or_400(to) # ""
        THEN [cf |-> cf, sf |-> sf, err |-> "ValueError", out |-> <<>>]
        ELSE IF _norm_key(a) = _norm_key(b)
        THEN Bind(get_session_classes(cf, sf, session_id, now), LAMBDA C :
             [cf |-> C.cf, sf |-> C.sf, err |-> "", out |-> C.out])
        ELSE Bind(rename_global_class(cf, a, b), LAMBDA G :
             Bind(load_session(G.file, sf, session_id, now), LAMBDA L :
             Bind(SessRenameLoop(L.out.classes, a, b, FALSE, {}), LAMBDA c1 :
             Bind(IF _norm_key(b) \notin Keys(c1) THEN Append(c1, b) ELSE c1,
                  LAMBDA c2 :
             Bind(IF _norm_key(PROCHEE) \notin Keys(c2)
                  THEN Append(c2, PROCHEE) ELSE c2, LAMBDA c3 :
             Bind([j \in DOMAIN L.out.photos |-> RenamePhoto(L.out.photos[j], a, b)],
                  LAMBDA photos :
             Bind(save_session(L.cf, L.sf, session_id,
                               [L.out EXCEPT !.classes = c3, !.photos = photos], now),
                  LAMBDA S :
             [cf |-> S.cf, sf |-> S.sf, err |-> "", out |-> c3])))))))

-----------------------------------------------------------------------------
(* The session store, one operation per step (Spec) *)

SID == "s1"
PhotoIds == {"p1", "p2"}
StoredName(photo_id) == IF photo_id = "p1" THEN "p1.jpg" ELSE "p2.jpg"

\* Raw bboxes as the label route hands them to set_photo_labels.
RawBBox(id, cls, x, y, w, h) ==
    [id |-> id, cls |-> cls, x |-> x, y |-> y, w |-> w, h |-> h,
     conf |-> NoConf, source |-> "manual", polygon |-> None]

bbKorr == RawBBox("b1", "korroziya", One \div 10, One \div 10, One \div 5, One \div 5)
\* the same box but for the case of its class and 3 * 10^-7 in x
bbKorrNear == RawBBox("b2", "Korroziya", One \div 10 + 3, One \div 10, One \div 5, One \div 5)
\* the same coordinates as bbKorr, another class
bbNovyj == RawBBox("b3", "novyj klass", One \div 10, One \div 10, One \div 5, One \div 5)
\* out of the frame, no class, found by the model
bbOut == [id |-> None, class |-> "", x |-> (9 * One) \div 10, y |-> 0 - One,
          w |-> One \div 2, h |-> 2 * One, confidence |-> 2 * One,
          source |-> "model", polygon |-> "poly"]

Patches ==
    { [bboxes |-> <<>>],
      [decision |-> "defect", bboxes |-> <<bbKorr>>],
      [decision |-> "defect", bboxes |-> <<bbKorr, bbNovyj>>],
      [bboxes |-> <<bbNovyj, bbKorr>>],
      [bboxes |-> <<bbKorr, bbKorrNear>>],
      [decision |-> "ok", comment |-> "c1"],
      [bboxes |-> <<bbOut>>] }

AddNames == {"Korroziya", "novyj klass", " Novyj klass"}
RenameFrom == {"korroziya", "prochee", "novyj klass"}
RenameTo == {"novyj klass", "Korroziya", "treshchiny", "x"}

Now == nops + 1

\* The registry and the session as stored.
Registry == classesFile.doc.classes
Session == sessionFile.doc
HasPhoto(session, photo_id) ==
    \E i \in DOMAIN session.photos : session.photos[i].photo_id = photo_id
BBoxesOf(session, photo_id) ==
    LET i == CHOOSE i \in DOMAIN session.photos : session.photos[i].photo_id = photo_id
    IN  session.photos[i].labels.bboxes

Step == nops < MaxOps /\ nops' = nops + 1

\* routes.py:920-935 with session_store.py:450-487: the upload is stored, then
\* the photo is added
AddPhoto(photo_id) ==
    \E R \in {add_photo(classesFile, sessionFile, SID, photo_id,
                       StoredName(photo_id), Now)} :
        /\ Step
        /\ classesFile' = R.cf
        /\ sessionFile' = R.sf
        /\ uploads' = uploads \cup {StoredName(photo_id)}
        /\ ret' = [op |-> "add_photo", photo_id |-> photo_id, err |-> ""]
        /\ UNCHANGED <<dsVars, storeVars, rd, th>>

\* session_store.py:589-632
SetPhotoLabels(photo_id, patch) ==
    \E R \in {set_photo_labels(classesFile, sessionFile, SID, photo_id, patch, Now)} :
        /\ Step
        /\ classesFile' = R.cf
        /\ sessionFile' = R.sf
        /\ ret' = [op |-> "set_photo_labels", photo_id |-> photo_id,
                   patch |-> patch, err |-> R.err,
                   known |-> HasPhoto(Session, photo_id),
                   before |-> IF HasPhoto(Session, photo_id)
                              THEN BBoxesOf(Session, photo_id) ELSE <<>>,
                   known_keys |-> Keys(get_global_classes(classesFile).out)
                                  \cup Keys(Session.classes)]
        /\ UNCHANGED <<dsVars, storeVars, rd, uploads, th>>

\* session_store.py:252-288
AddClass(name) ==
    \E R \in {add_class_to_session(classesFile, sessionFile, SID, name, Now)} :
        /\ Step
        /\ classesFile' = R.cf
        /\ sessionFile' = R.sf
        /\ ret' = [op |-> "add_class", name |-> name, err |-> ""]
        /\ UNCHANGED <<dsVars, storeVars, rd, uploads, th>>

\* session_store.py:291-390
RenameClass(frm, to) ==
    \E R \in {rename_class_in_session(classesFile, sessionFile, SID, frm, to, Now)} :
        /\ Step
        /\ classesFile' = R.cf
        /\ sessionFile' = R.sf
        /\ ret' = [op |-> "rename_class", frm |-> frm, to |-> to, err |-> R.err,
                   nboxes |-> IF Session.photos = <<>> THEN 0
                              ELSE Len(Session.photos[1].labels.bboxes)]
        /\ UNCHANGED <<dsVars, storeVars, rd, uploads, th>>

\* The state after create_session(SID) and the upload of photo p1.
Init ==
    \E C \in {create_session(Missing, SID, 1)} :
    \E P \in {add_photo(C.cf, C.sf, SID, "p1", StoredName("p1"), 1)} :
        /\ StoreIdle
        /\ rd = NoRead
        /\ DsIdle
        /\ classesFile = P.cf
        /\ sessionFile = P.sf
        /\ uploads = {StoredName("p1")}
        /\ ret = NoRet
        /\ th = <<>>
        /\ nops = 0

Next ==
    \/ \E photo_id \in PhotoIds : AddPhoto(photo_id)
    \/ \E photo_id \in PhotoIds, patch \in Patches : SetPhotoLabels(photo_id, patch)
    \/ \E name \in AddNames : AddClass(name)
    \/ \E frm \in RenameFrom, to \in RenameTo : RenameClass(frm, to)

Spec == Init /\ [][Next]_vars

-----------------------------------------------------------------------------
(* Claims about the session store (Spec) *)

Photos == Session.photos

\* C3: after set_photo_labels with a bboxes field the stored bbox list of the
\* photo is exactly the deduplicated patch list, whatever was stored before; so
\* a repeated identical call stores the same list again.
C3_BBoxesReplaced ==
    (ret.op = "set_photo_labels" /\ ret.err = "" /\ "bboxes" \in DOMAIN ret.patch)
        => BBoxesOf(Session, ret.photo_id) = dedupe_bboxes(ret.patch.bboxes)

\* C3 witness: bboxes were stored before the call, the patch held a duplicate,
\* and the stored list is the deduplicated patch, not the old list.
C3_Witness ==
    /\ ret.op = "set_photo_labels" /\ ret.err = ""
    /\ "bboxes" \in DOMAIN ret.patch
    /\ ret.before # <<>>
    /\ Len(ret.patch.bboxes) = 2
    /\ Len(BBoxesOf(Session, ret.photo_id)) = 1
    /\ BBoxesOf(Session, ret.photo_id) # ret.before

\* C6: set_photo_labels for a photo id the session does not have fails with
\* KeyError (the route's 404) and changes neither the session nor the registry.
C6_NotFoundChangesNothing ==
    [][(ret'.op = "set_photo_labels" /\ ~ret'.known)
          => /\ ret'.err = "KeyError"
             /\ sessionFile' = sessionFile
             /\ classesFile' = classesFile]_vars

\* C6 witness: labels are stored, and a call for an unknown photo has failed.
C6_Witness ==
    /\ ret.op = "set_photo_labels" /\ ret.err = "KeyError"
    /\ "bboxes" \in DOMAIN ret.patch /\ ret.patch.bboxes # <<>>
    /\ \E i \in DOMAIN Photos : Photos[i].labels.bboxes # <<>>

\* C7: after any sequence of addClass and renameClass the registry contains the
\* sentinel class and it is the last element.
C7_ProcheeLast ==
    /\ Registry # <<>>
    /\ _norm_key(Registry[Len(Registry)]) = _norm_key(PROCHEE)

\* C8: no two names of the registry are equal under case/whitespace
\* normalization.
C8_RegistryUnique ==
    \A i, j \in DOMAIN Registry :
        i # j => _norm_key(Registry[i]) # _norm_key(Registry[j])

\* C8 witness: a class was renamed to a name the registry already had, and the
\* two entries were merged.
C8_Witness ==
    /\ ret.op = "rename_class" /\ ret.err = ""
    /\ _norm_key(ret.to) \in Keys(DEFECT_CLASSES_RU)
    /\ _norm_key(ret.frm) \in Keys(DEFECT_CLASSES_RU)
    /\ _norm_key(ret.to) # _norm_key(ret.frm)
    /\ Len(Registry) < Len(DEFECT_CLASSES_RU)

IsRenameStep(r) ==
    /\ r.op = "rename_class" /\ r.err = ""
    /\ _norm_key(r.frm) # _norm_key(r.to)

\* The bbox list with every bbox of class a set to class b.
Renamed(bxs, a, b) ==
    [k \in DOMAIN bxs |->
        IF _norm_key(bxs[k].cls) = _norm_key(a)
        THEN [bxs[k] EXCEPT !.cls = b] ELSE bxs[k]]

RECURSIVE KeepFirstFrom(_, _)
\* The elements of bxs, from index k on, that no earlier element of bxs equals in
\* class and rounded coordinates.
KeepFirstFrom(bxs, k) ==
    IF k > Len(bxs) THEN <<>>
    ELSE IF \E e \in 1..(k - 1) : BBoxKey(bxs[e]) = BBoxKey(bxs[k])
         THEN KeepFirstFrom(bxs, k + 1)
         ELSE <<bxs[k]>> \o KeepFirstFrom(bxs, k + 1)

-----------------------------------------------------------------------------
(* Loading stored records that are missing or damaged (SpecLoad) *)

GoodLabels ==
    [decision |-> "defect", comment |-> "c1", bboxes_is_list |-> TRUE,
     bboxes |-> dedupe_bboxes(<<bbKorr>>)]

GoodPhoto == [NewPhoto("p1", "p1.jpg") EXCEPT !.labels = GoodLabels]

\* Photo entries as a damaged record may hold them: not an object, without an
\* id, without labels, with labels that lack keys, with bboxes not a list.
NotAPhoto ==
    [is_dict |-> FALSE, photo_id |-> "", stored_name |-> "",
     labels_is_dict |-> FALSE, labels |-> AbsentLabels]
PhotoNoId == [GoodPhoto EXCEPT !.photo_id = ""]
PhotoNoLabels ==
    [NewPhoto("p2", "p2.jpg") EXCEPT !.labels_is_dict = FALSE, !.labels = AbsentLabels]
PhotoBareLabels ==
    [NewPhoto("p2", "p2.jpg") EXCEPT
        !.labels = [decision |-> "ok", comment |-> Absent,
                    bboxes_is_list |-> FALSE, bboxes |-> <<>>]]

StoredClasses ==
    { [is_list |-> FALSE, xs |-> <<>>],
      [is_list |-> TRUE, xs |-> <<>>],
      [is_list |-> TRUE, xs |-> <<"  ", "#7">>],
      [is_list |-> TRUE, xs |-> <<" korroziya ", "#7", "prochee">>],
      [is_list |-> TRUE, xs |-> DEFECT_CLASSES_RU] }

StoredPhotos ==
    { [is_list |-> FALSE, ps |-> <<>>],
      [is_list |-> TRUE, ps |-> <<>>],
      [is_list |-> TRUE, ps |-> <<GoodPhoto>>],
      [is_list |-> TRUE, ps |-> <<NotAPhoto, GoodPhoto, PhotoNoId>>],
      [is_list |-> TRUE, ps |-> <<PhotoNoLabels, PhotoBareLabels>>] }

StoredSessionDocs ==
    { [t |-> "session", session_id |-> sid, created_at |-> created,
       classes_is_list |-> c.is_list, classes |-> c.xs,
       photos_is_list |-> p.is_list, photos |-> p.ps] :
         sid \in {"", SID}, created \in {0, 1},
         c \in StoredClasses, p \in StoredPhotos }

\* What the session file may hold: nothing, an empty or truncated text, a JSON
\* value that is not an object, the object {}, an object of any shape.
StoredSessionFiles ==
    {Missing, EmptyFile, TruncatedFile(SessionDoc(SID, 1, DEFECT_CLASSES_RU, <<>>)),
     FullFile([t |-> "nondict"]), FullFile(EmptyDict)}
    \cup {FullFile(d) : d \in StoredSessionDocs}

StoredRegistryFiles ==
    {Missing, EmptyFile, TruncatedFile(RegistryDoc(DEFECT_CLASSES_RU)),
     FullFile([t |-> "nondict"]),
     FullFile([t |-> "registry", classes_ok |-> FALSE, classes |-> <<>>]),
     FullFile(RegistryDoc(<<"  ">>)),
     FullFile(RegistryDoc(<<" korroziya ", "Novyj klass">>)),
     FullFile(RegistryDoc(DEFECT_CLASSES_RU))}

\* session_store.py:409-435
LoadSession ==
    \E L \in {load_session(classesFile, sessionFile, SID, Now)} :
        /\ Step
        /\ classesFile' = L.cf
        /\ sessionFile' = L.sf
        /\ ret' = [op |-> "load_session", out |-> L.out, stored |-> sessionFile,
                   again |-> ret.op = "load_session",
                   first |-> IF ret.op = "load_session" THEN ret.first ELSE sessionFile]
        /\ UNCHANGED <<dsVars, storeVars, rd, uploads, th>>

\* session_store.py:144-165
GetGlobalClasses ==
    \E g \in {get_global_classes(classesFile)} :
        /\ Step
        /\ classesFile' = g.file
        /\ ret' = [op |-> "get_global_classes", out |-> g.out]
        /\ UNCHANGED <<dsVars, storeVars, rd, sessionFile, uploads, th>>

\* json_io.py:39-53, on the session file or on the registry file
ReadRecord(f, default) ==
    /\ rd' = [default |-> default, file |-> f, out |-> atomic_read_json(f, default)]
    /\ UNCHANGED <<dsVars, storeVars, sessVars>>

InitLoad ==
    /\ StoreIdle
    /\ rd = NoRead
    /\ DsIdle
    /\ classesFile \in StoredRegistryFiles
    /\ sessionFile \in StoredSessionFiles
    /\ uploads = {}
    /\ ret = NoRet
    /\ th = <<>>
    /\ nops = 0

NextLoad ==
    \/ LoadSession
    \/ GetGlobalClasses
    \/ \E default \in {NoneVal, EmptyDict} : ReadRecord(sessionFile, default)
    \/ \E default \in {NoneVal, EmptyDict} : ReadRecord(classesFile, default)

SpecLoad == InitLoad /\ [][NextLoad]_vars

WellFormedPhoto(ph) ==
    /\ ph.is_dict
    /\ ph.photo_id \notin {"", None}
    /\ ph.labels_is_dict
    /\ ph.labels.bboxes_is_list
    /\ ph.labels.decision # Absent
    /\ ph.labels.comment # Absent

WellFormed(s) ==
    /\ s.t = "session"
    /\ s.session_id # ""
    /\ s.created_at # 0
    /\ s.classes_is_list /\ s.classes # <<>>
    /\ \A i \in DOMAIN s.classes : IsStr(s.classes[i]) /\ s.classes[i] # ""
    /\ s.photos_is_list
    /\ \A i \in DOMAIN s.photos : WellFormedPhoto(s.photos[i])

C5_DefaultNeverRaises ==
    rd.default # NoneVal
        => /\ rd.out.raised = ""
           /\ ~IsComplete(rd.file) => rd.out.val = rd.default

-----------------------------------------------------------------------------
(* The validation gate before training (SpecValidate) *)

\* dataset_builder.py:68-75: the tolerance 0.001
Tol == One \div 1000

\* A mutant: the size limits are not checked.
BBoxOkNoSize(x, y, w, h) ==
    ~(\/ x < 0 - Tol \/ y < 0 - Tol
      \/ x > One + Tol \/ y > One + Tol
      \/ x + w > One + Tol \/ y + h > One + Tol)

\* dataset_builder.py:67-77: the checks on the four numbers
BBoxOk(x, y, w, h) ==
    ~(\/ w <= 0 \/ h <= 0
      \/ x < 0 - Tol \/ y < 0 - Tol
      \/ w > One + Tol \/ h > One + Tol
      \/ x > One + Tol \/ y > One + Tol
      \/ x + w > One + Tol \/ y + h > One + Tol)

\* dataset_builder.py:57-77 (its _safe_float, lines 50-54, is the one of
\* session_store.py)
_bbox_ok(b) ==
    BBoxOk(_safe_float(Get(b, "x", 0), 0), _safe_float(Get(b, "y", 0), 0),
           _safe_float(Get(b, "w", 0), 0), _safe_float(Get(b, "h", 0), 0))

\* isinstance(b, dict)
IsDict(b) == "not_a_dict" \notin DOMAIN b

\* dataset_builder.py:93-130: the file of a photo is looked up under the
\* session's upload directory by its stored name.
_resolve_photo_path(ph, files) ==
    IF IsStr(ph.stored_name) /\ ph.stored_name \in files THEN ph.stored_name ELSE None

ZeroStats ==
    [total_photos |-> 0, photos_with_decision |-> 0, defect_photos |-> 0,
     ok_photos |-> 0, total_bboxes |-> 0, valid_bboxes |-> 0,
     invalid_bboxes |-> 0, defect_photos_with_bbox |-> 0, missing_files |-> 0]

RECURSIVE CountBBoxes(_, _)
\* dataset_builder.py:357-365: <<total, valid>> over the bboxes of one photo
CountBBoxes(bxs, acc) ==
    IF bxs = <<>> THEN acc
    ELSE CountBBoxes(Tail(bxs),
            IF ~IsDict(Head(bxs)) THEN acc
            ELSE IF _bbox_ok(Head(bxs)) THEN <<acc[1] + 1, acc[2] + 1>>
            ELSE <<acc[1] + 1, acc[2]>>)

\* dataset_builder.py:338-369: one turn of the loop over the photos
CountPhoto(ph, files, st) ==
    IF ~ph.is_dict THEN st
    ELSE LET labels == IF ph.labels_is_dict THEN ph.labels ELSE AbsentLabels
             decision == labels.decision
             bxs == IF labels.bboxes_is_list THEN labels.bboxes ELSE <<>>
         IN  Bind(CountBBoxes(bxs, <<0, 0>>), LAMBDA n :
             [total_photos |-> st.total_photos + 1,
              photos_with_decision |-> st.photos_with_decision
                    + (IF decision \in {"defect", "ok"} THEN 1 ELSE 0),
              defect_photos |-> st.defect_photos + (IF decision = "defect" THEN 1 ELSE 0),
              ok_photos |-> st.ok_photos + (IF decision = "ok" THEN 1 ELSE 0),
              total_bboxes |-> st.total_bboxes + n[1],
              valid_bboxes |-> st.valid_bboxes + n[2],
              invalid_bboxes |-> st.invalid_bboxes + (n[1] - n[2]),
              defect_photos_with_bbox |-> st.defect_photos_with_bbox
                    + (IF decision = "defect" /\ n[2] > 0 THEN 1 ELSE 0),
              missing_files |-> st.missing_files
                    + (IF _resolve_photo_path(ph, files) = None THEN 1 ELSE 0)])

RECURSIVE CountPhotos(_, _, _)
CountPhotos(photos, files, st) ==
    IF photos = <<>> THEN st
    ELSE Bind(CountPhoto(Head(photos), files, st), LAMBDA st1 :
              CountPhotos(Tail(photos), files, st1))

\* dataset_builder.py:318-410
validate_session_for_training(cf, sf, session_id, files, now) ==
    Bind(load_session(cf, sf, session_id, now), LAMBDA L :
    Bind(CountPhotos(IF L.out.photos_is_list THEN L.out.photos ELSE <<>>,
                     files, ZeroStats), LAMBDA stats :
        [cf |-> L.cf, sf |-> L.sf, raised |-> "", stats |-> stats,
         ok |-> ~(\/ stats.total_photos <= 0
                  \/ stats.defect_photos_with_bbox <= 0
                  \/ stats.valid_bboxes <= 0),
         message |-> IF stats.total_photos <= 0 THEN "no photos"
                     ELSE IF stats.defect_photos_with_bbox <= 0 THEN "no defect photo with a bbox"
                     ELSE IF stats.valid_bboxes <= 0 THEN "all bboxes invalid"
                     ELSE "OK"]))

\* Stored bboxes for the validation: inside the frame, of zero width, at and
\* just beyond the tolerance on each side, wider than the frame, without
\* numbers, and an entry that is not an object.
VBox(x, y, w, h) == [id |-> None, cls |-> "korroziya", x |-> x, y |-> y, w |-> w, h |-> h]
vInside == VBox(One \div 10, One \div 10, One \div 5, One \div 5)
vZeroWidth == VBox(One \div 10, One \div 10, 0, One \div 5)
vAtEdge == VBox(0 - Tol, 0, One + Tol, One \div 2)
vPastEdge == VBox(One \div 2, 0, One \div 2 + Tol + 1, One \div 2)
vLeftOfFrame == VBox(0 - Tol - 1, 0, One \div 2, One \div 2)
vTooWide == VBox(0 - Tol, 0, One + Tol + 1, One \div 2)
vNoNumbers == [id |-> None, cls |-> "korroziya", w |-> NotANumber]
vNotADict == [not_a_dict |-> TRUE]

StoredBBoxLists ==
    { <<>>, <<vInside>>, <<vZeroWidth, vNoNumbers>>, <<vNotADict, vAtEdge>>,
      <<vPastEdge, vLeftOfFrame>>, <<vTooWide>>, <<vTooWide, vInside>> }

StoredDecisions == {None, "defect", "ok"}

LabelledPhoto(photo_id, decision, bboxes) ==
    [NewPhoto(photo_id, StoredName(photo_id)) EXCEPT
        !.labels = [decision |-> decision, comment |-> None,
                    bboxes_is_list |-> TRUE, bboxes |-> bboxes]]

LabelledPhotos(photo_id) ==
    {LabelledPhoto(photo_id, d, bs) : d \in StoredDecisions, bs \in StoredBBoxLists}

ValidateSessions ==
    {SessionDoc(SID, 1, DEFECT_CLASSES_RU, ps) :
        ps \in {<<>>} \cup {<<p>> : p \in LabelledPhotos("p1")}
               \cup {<<p, q>> : p \in LabelledPhotos("p1"),
                                q \in {LabelledPhoto("p2", d, <<vInside>>) :
                                            d \in StoredDecisions}}}

\* routes.py:1134 calls the gate before a training job is started
Validate ==
    \E V \in {validate_session_for_training(classesFile, sessionFile, SID,
                                            uploads, Now)} :
        /\ Step
        /\ classesFile' = V.cf
        /\ sessionFile' = V.sf
        /\ ret' = [op |-> "validate", ok |-> V.ok, message |-> V.message,
                   stats |-> V.stats, raised |-> V.raised]
        /\ UNCHANGED <<dsVars, storeVars, rd, uploads, th>>

InitValidate ==
    /\ StoreIdle
    /\ rd = NoRead
    /\ DsIdle
    /\ classesFile = FullFile(RegistryDoc(DEFECT_CLASSES_RU))
    /\ sessionFile \in {Missing} \cup {FullFile(d) : d \in ValidateSessions}
    /\ uploads \in {{}, {StoredName("p1")}}
    /\ ret = NoRet
    /\ th = <<>>
    /\ nops = 0

NextValidate ==
    \/ Validate
    \/ \E photo_id \in PhotoIds : AddPhoto(photo_id)

SpecValidate == InitValidate /\ [][NextValidate]_vars

\* Positive size, every coordinate within the tolerance of [0, 1], and the box
\* inside the frame up to the tolerance.
GeometricallyValid(b) ==
    /\ IsDict(b)
    /\ {"x", "y", "w", "h"} \subseteq DOMAIN b
    /\ \A k \in {"x", "y", "w", "h"} : b[k] # NotANumber
    /\ b.w > 0 /\ b.h > 0
    /\ \A k \in {"x", "y", "w", "h"} : 0 - Tol <= b[k] /\ b[k] <= One + Tol
    /\ b.x + b.w <= One + Tol
    /\ b.y + b.h <= One + Tol

Trainable(session) ==
    /\ Len(session.photos) >= 1
    /\ \E i \in DOMAIN session.photos :
          /\ session.photos[i].labels.decision = "defect"
          /\ \E j \in DOMAIN session.photos[i].labels.bboxes :
                GeometricallyValid(session.photos[i].labels.bboxes[j])

-----------------------------------------------------------------------------
(* Two label writes on one session at the same time (SpecConc) *)

\* routes.py:1040-1051: save_labels is a plain def, which the framework runs
\* on a pool of threads, so that two requests run set_photo_labels together.
\* Each of the two requests is one thread here.
Threads == {1, 2}

ConcPatches ==
    { [bboxes |-> <<>>],
      [decision |-> "defect", bboxes |-> <<bbKorr>>],
      [bboxes |-> <<bbNovyj, bbKorr>>],
      [decision |-> "ok", comment |-> "c1"] }

\* The session the two requests find: created, with the photos p1 and p2.
ConcStart ==
    Bind(create_session(Missing, SID, 1), LAMBDA C :
    Bind(add_photo(C.cf, C.sf, SID, "p1", StoredName("p1"), 1), LAMBDA P :
         add_photo(P.cf, P.sf, SID, "p2", StoredName("p2"), 1)))

RECURSIVE ClassesOf(_)
\* session_store.py:617-618: the class names handed to add_class_to_session
ClassesOf(deduped) ==
    IF deduped = <<>> THEN <<>>
    ELSE LET c0 == _norm_cls(Head(deduped).cls)
         IN  <<IF c0 # "" THEN c0 ELSE PROCHEE>> \o ClassesOf(Tail(deduped))

\* session_store.py:600-611, 614, 621-623: the session is loaded, the photo is
\* looked up and its labels are patched in the thread's own copy
ConcLoad(t) ==
    /\ th[t].pc = "load"
    /\ \E L \in {load_session(classesFile, sessionFile, SID, Now)} :
       \E i \in {find_photo(L.out, th[t].photo_id)} :
          /\ classesFile' = L.cf
          /\ sessionFile' = L.sf
          /\ th' = [th EXCEPT ![t] =
                IF i = 0
                THEN [@ EXCEPT !.pc = "done", !.err = "KeyError"]
                ELSE [@ EXCEPT
                        !.s = [L.out EXCEPT !.photos[i].labels =
                                  PatchLabels(L.out.photos[i].labels, th[t].patch)],
                        !.todo = IF "bboxes" \in DOMAIN th[t].patch
                                 THEN ClassesOf(dedupe_bboxes(th[t].patch.bboxes))
                                 ELSE <<>>,
                        !.pc = IF "bboxes" \in DOMAIN th[t].patch
                                  /\ dedupe_bboxes(th[t].patch.bboxes) # <<>>
                               THEN "classes" ELSE "save"]]
    /\ UNCHANGED <<dsVars, storeVars, rd, uploads, ret, nops>>

\* session_store.py:617-619: one call of add_class_to_session
ConcAddClass(t) ==
    /\ th[t].pc = "classes"
    /\ \E A \in {add_class_to_session(classesFile, sessionFile, SID,
                                     Head(th[t].todo), Now)} :
          /\ classesFile' = A.cf
          /\ sessionFile' = A.sf
    /\ th' = [th EXCEPT ![t].todo = Tail(@),
                        ![t].pc = IF Tail(th[t].todo) = <<>> THEN "save" ELSE "classes"]
    /\ UNCHANGED <<dsVars, storeVars, rd, uploads, ret, nops>>

\* session_store.py:631: the thread's copy is saved
ConcSave(t) ==
    /\ th[t].pc = "save"
    /\ \E S \in {save_session(classesFile, sessionFile, SID, th[t].s, Now)} :
          /\ classesFile' = S.cf
          /\ sessionFile' = S.sf
    /\ th' = [th EXCEPT ![t].pc = "done"]
    /\ UNCHANGED <<dsVars, storeVars, rd, uploads, ret, nops>>

InitConc ==
    /\ StoreIdle
    /\ rd = NoRead
    /\ DsIdle
    /\ classesFile = ConcStart.cf
    /\ sessionFile = ConcStart.sf
    /\ uploads = {StoredName("p1"), StoredName("p2")}
    /\ ret = NoRet
    /\ th \in [Threads -> {[pc |-> "load", photo_id |-> p, patch |-> q,
                            s |-> NoneVal, todo |-> <<>>, err |-> ""] :
                                p \in PhotoIds, q \in ConcPatches}]
    /\ nops = 0

NextConc ==
    \/ \E t \in Threads : ConcLoad(t)
    \/ \E t \in Threads : ConcAddClass(t)
    \/ \E t \in Threads : ConcSave(t)

SpecConc == InitConc /\ [][NextConc]_vars

\* The stored session after the call of thread a and then the call of thread b,
\* one after the other.
OneAfterTheOther(a, b) ==
    Bind(set_photo_labels(ConcStart.cf, ConcStart.sf, SID,
                          th[a].photo_id, th[a].patch, 1), LAMBDA A :
         set_photo_labels(A.cf, A.sf, SID, th[b].photo_id, th[b].patch, 1).sf)

\* C2: when the two set_photo_labels calls have returned, the stored session
\* is the one that running them one after the other, in one of the two orders,
\* leaves.
C2_LabelWritesSerialized ==
    (\A t \in Threads : th[t].pc = "done")
        => sessionFile \in {OneAfterTheOther(1, 2), OneAfterTheOther(2, 1)}

-----------------------------------------------------------------------------
(* Dataset corpora: images/{train,val}, labels/{train,val}, manifest.json,  *)
(* data.yaml.  A file of a split is named by <<split, stem>>.               *)

\* dict[k] = v and del dict[k], also for the files of a directory
Put(f, k, v) == [x \in DOMAIN f \cup {k} |-> IF x = k THEN v ELSE f[x]]
Del(f, ks) == [x \in DOMAIN f \ ks |-> f[x]]

ManifestDoc(entries) == [t |-> "manifest", entries |-> entries]
NoYaml == [exists |-> FALSE, names |-> <<>>]

\* dataset_builder.py:448-453, routes.py:87-91: the four directories, empty
EmptyCorpus ==
    [t |-> "corpus", img |-> <<>>, lbl |-> <<>>, man |-> Missing, yaml |-> NoYaml]

\* The photo file of a session, None when there is none.
BlobOf(files, session_id, ph) ==
    IF IsStr(ph.stored_name) /\ <<session_id, ph.stored_name>> \in DOMAIN files
    THEN files[<<session_id, ph.stored_name>>] ELSE [hash |-> None, mtime |-> 0]

\* dataset_builder.py:455-463, 711-719: the manifest as the builders read it
ReadManifest(c) ==
    IF IsComplete(c.man) /\ c.man.doc.t = "manifest" THEN c.man.doc.entries ELSE <<>>

\* shutil.copy2 to the end: the whole content, and the source's mtime
CopiedImage(blob) == [n |-> Chunks, hash |-> blob.hash, mtime |-> blob.mtime]

\* dataset_builder.py:152-165: _list_images, _list_labels of one split
_list_images(c, split) == {k \in DOMAIN c.img : k[1] = split}
_list_labels(c, split) == {k \in DOMAIN c.lbl : k[1] = split}

\* dataset_builder.py:233-238: the first image of the directory listing that
\* has a label of the same stem; the order of the listing is fixed but
\* arbitrary.  <<>> when there is none.
pick_pair(c, imgs, lbls) ==
    IF \E k \in imgs : k \in lbls /\ k \in DOMAIN c.lbl
    THEN CHOOSE k \in imgs : k \in lbls /\ k \in DOMAIN c.lbl
    ELSE <<>>

\* dataset_builder.py:167-208: image and label are copied to the other split
\* and the manifest entry that names the source label or image is redirected
_copy_pair(c, entries, src, split_name) ==
    LET dst == <<split_name, src[2]>>
        c1 == [c EXCEPT !.img = Put(c.img, dst, c.img[src]),
                        !.lbl = Put(c.lbl, dst, c.lbl[src])]
        hits == {k \in DOMAIN entries :
                    entries[k].label = src \/ entries[k].image = src}
    IN  IF hits = {} THEN [c |-> c1, entries |-> entries]
        ELSE LET found_key == CHOOSE k \in hits : TRUE
             IN  [c |-> c1,
                  entries |-> [entries EXCEPT ![found_key] =
                     [@ EXCEPT !.split = split_name, !.image = dst, !.label = dst]]]

\* A mutant: only an empty val is filled.
EnsureValOnly(c, entries) ==
    LET pairT == pick_pair(c, _list_images(c, "train"), _list_labels(c, "train"))
    IN  IF _list_images(c, "val") = {} /\ pairT # <<>>
        THEN _copy_pair(c, entries, pairT, "val")
        ELSE [c |-> c, entries |-> entries]

\* dataset_builder.py:211-267
_ensure_nonempty_train_val(c, entries) ==
    LET train_lbls == _list_labels(c, "train")
        val_lbls == _list_labels(c, "val")
        pairT == pick_pair(c, _list_images(c, "train"), train_lbls)
        pairV == pick_pair(c, _list_images(c, "val"), val_lbls)
    IN  IF _list_images(c, "val") = {} /\ _list_images(c, "train") # {}
        THEN IF pairT # <<>> THEN _copy_pair(c, entries, pairT, "val")
             ELSE [c |-> c, entries |-> entries]
        ELSE IF _list_images(c, "train") = {} /\ _list_images(c, "val") # {}
        THEN IF pairV # <<>> THEN _copy_pair(c, entries, pairV, "train")
             ELSE [c |-> c, entries |-> entries]
        ELSE [c |-> c, entries |-> entries]

RECURSIVE UniqLoop(_, _)
\* dataset_builder.py:270-282
UniqLoop(xs, seen) ==
    IF xs = <<>> THEN <<>>
    ELSE LET nx == _norm_cls(Head(xs))
         IN  IF nx = "" \/ _norm_key(nx) \in seen THEN UniqLoop(Tail(xs), seen)
             ELSE <<nx>> \o UniqLoop(Tail(xs), seen \cup {_norm_key(nx)})

_uniq_classes(xs) == UniqLoop(xs, {})

\* dataset_builder.py:285-303
_ensure_prochee_last(xs) ==
    SelectSeq(_uniq_classes(xs), LAMBDA x : _norm_key(x) # _norm_key(PROCHEE))
        \o <<PROCHEE>>

RECURSIVE IndexFrom(_, _, _)
IndexFrom(xs, x, i) ==
    IF i > Len(xs) THEN 0 - 1
    ELSE IF xs[i] = x THEN i - 1 ELSE IndexFrom(xs, x, i + 1)

\* {c: i for i, c in enumerate(classes)}[x], -1 when x is no key
IndexOf(xs, x) == IndexFrom(xs, x, 1)

\* dataset_builder.py:38-47, 542-543: the line "idx cx cy w h" with six decimals
_xywh_to_yolo(x, y, w, h) ==
    [cx |-> _clamp01(_clamp01(x) + _clamp01(w) \div 2),
     cy |-> _clamp01(_clamp01(y) + _clamp01(h) \div 2),
     w |-> _clamp01(w), h |-> _clamp01(h)]

LabelLine(idx, b) ==
    LET g == _xywh_to_yolo(b.x, b.y, b.w, b.h)
    IN  <<idx, _round6(g.cx), _round6(g.cy), _round6(g.w), _round6(g.h)>>

\* float(b.get("x", 0.0)) ... raises for one of the four
FloatsRaise(b) ==
    \E k \in {"x", "y", "w", "h"} : k \in DOMAIN b /\ b[k] = NotANumber

\* data.yaml with its names
YamlOf(classes) == [exists |-> TRUE, names |-> classes]

-----------------------------------------------------------------------------
(* The accumulated corpus of one session, dataset_builder.py:427-587 *)

\* sum(ord(ch) for ch in photo_id) of the photo ids of this model
OrdSum(photo_id) ==
    CASE photo_id = "p1" -> 161
      [] photo_id = "p2" -> 162
      [] photo_id = "p3" -> 163
      [] OTHER -> 0

\* dataset_builder.py:483-485
split_is_val(photo_id) == (OrdSum(photo_id) % 10) < 2

SplitName(is_val) == IF is_val THEN "val" ELSE "train"

\* dataset_builder.py:469-477: the index of a class, the class being added to
\* the session when the snapshot does not have it.  idx = -1 is the KeyError of
\* cls_to_idx[c].
ensure_class(st, cls_name, session_id, now) ==
    LET c == IF _norm_cls(cls_name) # "" THEN _norm_cls(cls_name) ELSE PROCHEE
    IN  IF IndexOf(st.classes, c) >= 0
        THEN [st |-> st, idx |-> IndexOf(st.classes, c)]
        ELSE Bind(add_class_to_session(st.cf, st.sf, session_id, c, now), LAMBDA A :
             Bind(_ensure_prochee_last(A.out), LAMBDA classes :
             [st |-> [st EXCEPT !.cf = A.cf, !.sf = A.sf, !.classes = classes],
              idx |-> IndexOf(classes, c)]))

RECURSIVE SessionLines(_, _, _, _, _)
\* dataset_builder.py:524-543: the lines of one photo's label file
SessionLines(st, bboxes, lines, session_id, now) ==
    IF bboxes = <<>> \/ st.err # "" THEN [st |-> st, lines |-> lines]
    ELSE LET b == Head(bboxes)
         IN  IF ~IsDict(b) \/ ~_bbox_ok(b)
             THEN SessionLines(st, Tail(bboxes), lines, session_id, now)
             ELSE Bind(ensure_class(st, Or(Get(b, "cls", None),
                                           Or(Get(b, "class", None), PROCHEE)),
                                    session_id, now), LAMBDA E :
                  IF E.idx < 0
                  THEN [st |-> [E.st EXCEPT !.err = "KeyError"], lines |-> lines]
                  ELSE IF FloatsRaise(b)
                  THEN SessionLines(E.st, Tail(bboxes), lines, session_id, now)
                  ELSE SessionLines(E.st, Tail(bboxes),
                                    Append(lines, LabelLine(E.idx, b)),
                                    session_id, now))

\* dataset_builder.py:483-567: one photo of the loop
SessionPhoto(st, ph, files, session_id, incremental, now) ==
    IF ~ph.is_dict \/ ph.photo_id \in {"", None} THEN st
    ELSE IF BlobOf(files, session_id, ph).hash = None THEN st
    ELSE
    LET key == <<session_id, ph.photo_id>>
        split == SplitName(split_is_val(ph.photo_id))
        dst == <<split, key>>
        labels == IF ph.labels_is_dict THEN ph.labels ELSE AbsentLabels
        bboxes == IF labels.bboxes_is_list THEN labels.bboxes ELSE <<>>
        copied == dst \notin DOMAIN st.c.img
        img1 == IF copied
                THEN Put(st.c.img, dst, CopiedImage(BlobOf(files, session_id, ph)))
                ELSE st.c.img
    IN  Bind(IF labels.decision = "defect" /\ bboxes # <<>>
             THEN SessionLines(st, bboxes, <<>>, session_id, now)
             ELSE [st |-> st, lines |-> <<>>], LAMBDA L :
        IF L.st.err # ""
        THEN [L.st EXCEPT !.c.img = img1,
                          !.updated_images = @ + (IF copied THEN 1 ELSE 0)]
        ELSE LET prev == IF dst \in DOMAIN st.c.lbl THEN st.c.lbl[dst] ELSE <<>>
                 written == ~incremental \/ prev # L.lines
             IN  [L.st EXCEPT
                    !.c.img = img1,
                    !.c.lbl = IF written THEN Put(st.c.lbl, dst, L.lines) ELSE @,
                    !.updated_images = @ + (IF copied THEN 1 ELSE 0),
                    !.updated_labels = @ + (IF written THEN 1 ELSE 0),
                    !.total_labels_written = @ + Len(L.lines),
                    !.entries = Put(st.entries, key,
                        [session_id |-> session_id, photo_id |-> ph.photo_id,
                         split |-> split, image |-> dst, label |-> dst,
                         num_boxes |-> Len(L.lines)])])

RECURSIVE SessionPhotos(_, _, _, _, _, _)
SessionPhotos(st, photos, files, session_id, incremental, now) ==
    IF photos = <<>> \/ st.err # "" THEN st
    ELSE Bind(SessionPhoto(st, Head(photos), files, session_id, incremental, now),
              LAMBDA st1 : SessionPhotos(st1, Tail(photos), files, session_id,
                                         incremental, now))

\* dataset_builder.py:427-587.  A KeyError leaves the files written so far,
\* and neither manifest nor data.yaml is written.
build_accumulated_dataset_for_session(cf, sf, files, c0, session_id, incremental, now) ==
    Bind(load_session(cf, sf, session_id, now), LAMBDA L :
    Bind(IF c0.t = "corpus" THEN c0 ELSE EmptyCorpus, LAMBDA c :
    Bind(get_session_classes(L.cf, L.sf, session_id, now), LAMBDA G :
    Bind(SessionPhotos([cf |-> G.cf, sf |-> G.sf, c |-> c,
                        entries |-> ReadManifest(c),
                        classes |-> _ensure_prochee_last(G.out), err |-> "",
                        updated_images |-> 0, updated_labels |-> 0,
                        total_labels_written |-> 0],
                       L.out.photos, files, session_id, incremental, now),
         LAMBDA st :
    IF st.err # ""
    THEN [cf |-> st.cf, sf |-> st.sf, c |-> st.c, err |-> st.err,
          updated_images |-> st.updated_images, updated_labels |-> st.updated_labels]
    ELSE Bind(_ensure_nonempty_train_val(st.c, st.entries), LAMBDA E :
         [cf |-> st.cf, sf |-> st.sf, err |-> "",
          c |-> [E.c EXCEPT !.man = FullFile(ManifestDoc(E.entries)),
                            !.yaml = YamlOf(st.classes)],
          updated_images |-> st.updated_images,
          updated_labels |-> st.updated_labels])))))

-----------------------------------------------------------------------------
(* Hygiene of the accumulated corpus, routes.py:87-343 *)

\* routes.py:87-91
_ensure_yolo_skeleton(c) == IF c.t = "corpus" THEN c ELSE EmptyCorpus

\* routes.py:134-142
_load_manifest(c) == ReadManifest(c)

\* routes.py:145-150
_save_manifest(c, entries) == [c EXCEPT !.man = FullFile(ManifestDoc(entries))]

\* routes.py:162-178: the entries whose image and label exist
CleanedEntries(c, entries) ==
    LET ok == {k \in DOMAIN entries :
                  entries[k].image \in DOMAIN c.img /\ entries[k].label \in DOMAIN c.lbl}
    IN  [k \in ok |-> entries[k]]

\* routes.py:155-186.  Returns the corpus afterwards and the cleaned manifest.
_cleanup_manifest_missing_files(c, entries) ==
    IF DOMAIN entries = {} THEN [c |-> c, cleaned |-> entries]
    ELSE Bind(CleanedEntries(c, entries), LAMBDA cleaned :
         [c |-> IF DOMAIN cleaned # DOMAIN entries THEN _save_manifest(c, cleaned) ELSE c,
          cleaned |-> cleaned])

\* routes.py:189-211
_accumulated_stats(c0) ==
    Bind(_ensure_yolo_skeleton(c0), LAMBDA c :
    Bind(_cleanup_manifest_missing_files(c, _load_manifest(c)), LAMBDA M :
    [c |-> M.c,
     images |-> [train |-> Cardinality(_list_images(c, "train")),
                 val |-> Cardinality(_list_images(c, "val"))],
     labels |-> [train |-> Cardinality(_list_labels(c, "train")),
                 val |-> Cardinality(_list_labels(c, "val"))],
     manifest_items |-> Cardinality(DOMAIN M.cleaned)]))

\* The day of _now_ns() in this model; the photo files are one or two days old.
Today == 3

\* No keep_last_n, no max_age_days
NoLimit == 0 - 1

\* routes.py:262-263, 277-279: imgs_sorted[:n].  Among images of equal mtime the
\* order of the sort is the order of the directory listing, so that every set
\* of n newest images is a possible imgs_sorted[:n].
NewestSets(c, n) ==
    LET imgs == DOMAIN c.img
        m == Min(n, Cardinality(imgs))
    IN  {K \in SUBSET imgs :
            /\ Cardinality(K) = m
            /\ \A a \in K, b \in imgs \ K : c.img[a].mtime >= c.img[b].mtime}

\* A mutant: the files are unlinked in a dry run as well.
UnlinkAlways(c, gone, gone_lbls, dry_run) ==
    [c EXCEPT !.img = Del(c.img, gone), !.lbl = Del(c.lbl, gone_lbls)]

\* A mutant: the label files of the deleted images stay.
UnlinkImagesOnly(c, gone, gone_lbls, dry_run) ==
    IF dry_run THEN c ELSE [c EXCEPT !.img = Del(c.img, gone)]

\* routes.py:291-322: the images outside the keep-set and their labels are
\* unlinked, or only counted in a dry run
Unlink(c, gone, gone_lbls, dry_run) ==
    IF dry_run THEN c
    ELSE [c EXCEPT !.img = Del(c.img, gone), !.lbl = Del(c.lbl, gone_lbls)]

\* routes.py:254-343, newest being imgs_sorted[:n]
_accumulated_prune(c0, keep_last_n, newest, max_age_days, dry_run) ==
    Bind(_ensure_yolo_skeleton(c0), LAMBDA c :
    LET imgs == DOMAIN c.img
    IN  IF keep_last_n = NoLimit /\ max_age_days = NoLimit
        THEN [c |-> c, removed_images |-> 0, removed_labels |-> 0,
              kept_images |-> Cardinality(imgs), dry_run |-> dry_run]
        ELSE
        LET keep == (IF keep_last_n # NoLimit THEN newest ELSE {})
                    \cup (IF max_age_days # NoLimit
                          THEN {k \in imgs : c.img[k].mtime >= Today - max_age_days}
                          ELSE {})
            gone == imgs \ keep
            gone_lbls == gone \cap DOMAIN c.lbl
            c1 == Unlink(c, gone, gone_lbls, dry_run)
        IN  [c |-> _cleanup_manifest_missing_files(c1, _load_manifest(c1)).c,
             removed_images |-> Cardinality(gone),
             removed_labels |-> Cardinality(gone_lbls),
             kept_images |-> Cardinality(keep), dry_run |-> dry_run])

\* An archive is named acc_<ts> or, on a collision, acc_<ts>_<ns>: <<ts, ns>>
\* with ns = 0 for the name without suffix.  The names compare as strings: ts
\* and ns have a fixed number of digits, and a name is less than its extensions.
NameLess(a, b) == a[1] < b[1] \/ (a[1] = b[1] /\ a[2] < b[2])

\* routes.py:218-221: the name of the new archive at second ts and nanosecond ns
ArchiveName(archives, ts, ns) ==
    IF \E a \in archives : a[1] = ts /\ a[2] = 0 THEN <<ts, ns>> ELSE <<ts, 0>>

\* archives[k:] of the names sorted in reverse
Beyond(archives, k) ==
    {a \in archives : Cardinality({b \in archives : NameLess(a, b)}) >= k}

\* routes.py:231-242: the archives that are removed
RemovedArchives(archives, k) == Beyond(archives, k)

\* routes.py:214-251
_accumulated_rotate(c0, archives, keep_archives, ts, ns) ==
    LET dst == ArchiveName(archives, ts, ns)
        all == archives \cup {dst}
        k == Max(0, keep_archives)
    IN  [c |-> EmptyCorpus, archived_to |-> dst,
         removed_archives |-> RemovedArchives(all, k),
         archives |-> all \ RemovedArchives(all, k)]

-----------------------------------------------------------------------------
(* The global builder, dataset_builder.py:633-940.  An image of the global  *)
(* corpus is named by the hash of its content: <<split, hash>>.             *)

\* dataset_builder.py:641, 651: the defaults when the settings name none
DefaultMinTrainObjects == 50
DefaultSeed == 1337

\* An optional int argument: given or None
Given(v) == [is_int |-> TRUE, v |-> v]
NotGiven == [is_int |-> FALSE, v |-> 0]

RECURSIVE Xor(_, _)
\* a ^ b of two naturals
Xor(a, b) ==
    IF a = 0 THEN b
    ELSE IF b = 0 THEN a
    ELSE 2 * Xor(a \div 2, b \div 2) + (((a % 2) + (b % 2)) % 2)

\* int(img_hash[:8], 16) of the three contents of the model
HashPrefix(img_hash) ==
    CASE img_hash = "h1" -> 1337
      [] img_hash = "h2" -> 1338
      [] img_hash = "h3" -> 1340
      [] OTHER -> 0

\* dataset_builder.py:654-663.  The hash prefixes and the seeds of the model
\* are naturals below 2^31, which & 0xFFFFFFFF leaves as they are.
_global_split_is_val(img_hash, seed) ==
    (Xor(HashPrefix(img_hash), seed) % 10) < 2

RECURSIVE LastIndexLow(_, _, _)
\* {_norm_low(c): i for i, c in enumerate(classes)}.get(key, -1): the last
\* position whose normalized name is key
LastIndexLow(classes, key, i) ==
    IF i = 0 THEN 0 - 1
    ELSE IF _norm_key(classes[i]) = key THEN i - 1
    ELSE LastIndexLow(classes, key, i - 1)

\* A mutant: the name is looked up as written.
ClassToIdxExact(classes, name) ==
    IF IndexOf(classes, name) >= 0 THEN IndexOf(classes, name) ELSE 0

\* dataset_builder.py:693-701
class_to_idx(classes, name) ==
    LET at(key) == LastIndexLow(classes, key, Len(classes))
        fallback_idx == IF at(_norm_key(PROCHEE)) >= 0 THEN at(_norm_key(PROCHEE)) ELSE 0
        nn == _norm_key(name)
    IN  IF nn = "" THEN fallback_idx
        ELSE IF at(nn) >= 0 THEN at(nn) ELSE fallback_idx

\* dataset_builder.py:763-769: the bboxes that are kept
KeptBBoxes(bboxes) == SelectSeq(bboxes, LAMBDA b : IsDict(b) /\ _bbox_ok(b))

RECURSIVE GlobalLines(_, _)
\* dataset_builder.py:811-826
GlobalLines(classes, kept) ==
    IF kept = <<>> THEN <<>>
    ELSE LET b == Head(kept)
             cls == Or(Get(b, "cls", None), Or(Get(b, "class", None), PROCHEE))
         IN  IF FloatsRaise(b) THEN GlobalLines(classes, Tail(kept))
             ELSE <<LabelLine(class_to_idx(classes, cls), b)>>
                      \o GlobalLines(classes, Tail(kept))

\* dataset_builder.py:682-735: what the build holds before the loop
GlobalStart(cf, c0, incremental, seed, min_train_objects) ==
    Bind(get_global_classes(cf), LAMBDA G :
    Bind(IF c0.t = "corpus" THEN c0 ELSE EmptyCorpus, LAMBDA c :
    LET min_obj == IF min_train_objects.is_int THEN min_train_objects.v
                   ELSE DefaultMinTrainObjects
    IN  [cf |-> G.file, c |-> c,
         classes |-> _ensure_prochee_last(G.out),
         manifest |-> ReadManifest(c),
         existing_hashes |-> ReadManifest(c),
         incremental |-> incremental,
         seed |-> IF seed.is_int THEN seed.v ELSE DefaultSeed,
         min_obj |-> IF min_obj <= 0 THEN 1 ELSE min_obj,
         sessions_scanned |-> 0, photos_scanned |-> 0, photos_included |-> 0,
         duplicates_skipped |-> 0, missing_files |-> 0, total_boxes_kept |-> 0,
         invalid_boxes_skipped |-> 0, updated_images |-> 0, updated_labels |-> 0]))

\* dataset_builder.py:743-749: the next session of the listing is loaded
GlobalLoad(g, sf, session_id, now) ==
    Bind(load_session(g.cf, sf, session_id, now), LAMBDA L :
    [g |-> [g EXCEPT !.cf = L.cf, !.sessions_scanned = @ + 1],
     sf |-> L.sf, photos |-> L.out.photos])

\* A mutant: the hashes already in the manifest are not looked at.
NeverDuplicate(existing_hashes, img_hash, cur_key) == FALSE

\* dataset_builder.py:791-796: the content is in the manifest under another
\* source
IsDuplicate(existing_hashes, img_hash, cur_key) ==
    /\ img_hash \in DOMAIN existing_hashes
    /\ existing_hashes[img_hash].source_key # cur_key

\* dataset_builder.py:751-831: what the loop decides for one photo.  act is
\* "skip", "missing", "duplicate" or "write".
PhotoPlan(g, session_id, ph, files) ==
    LET labels == IF ph.labels_is_dict THEN ph.labels ELSE AbsentLabels
        bboxes == IF labels.bboxes_is_list THEN labels.bboxes ELSE <<>>
        kept == KeptBBoxes(bboxes)
        invalid == Len(SelectSeq(bboxes, LAMBDA b : IsDict(b) /\ ~_bbox_ok(b)))
        img_hash == BlobOf(files, session_id, ph).hash
        photo_id == IF ph.photo_id = None THEN "" ELSE ph.photo_id
        cur_key == <<session_id, photo_id>>
        lines == GlobalLines(g.classes, kept)
        split == SplitName(_global_split_is_val(img_hash, g.seed))
        plan(act, inv) ==
            [act |-> act, invalid |-> inv, img_hash |-> img_hash, photo_id |-> photo_id,
             source_key |-> cur_key, split |-> split, dst |-> <<split, img_hash>>,
             lines |-> lines]
    IN  IF labels.decision # "defect" \/ bboxes = <<>> THEN plan("skip", 0)
        ELSE IF kept = <<>> THEN plan("skip", invalid)
        ELSE IF img_hash = None THEN plan("missing", invalid)
        ELSE IF IsDuplicate(g.existing_hashes, img_hash, cur_key)
        THEN plan("duplicate", invalid)
        ELSE IF lines = <<>> THEN plan("skip", invalid + Len(kept))
        ELSE plan("write", invalid + (Len(kept) - Len(lines)))

\* dataset_builder.py:751-872: one photo of the loop
GlobalPhoto(g, session_id, ph, files) ==
    IF ~ph.is_dict THEN g
    ELSE
    Bind(PhotoPlan(g, session_id, ph, files), LAMBDA p :
    Bind([g EXCEPT !.photos_scanned = @ + 1,
                   !.invalid_boxes_skipped = @ + p.invalid], LAMBDA g1 :
    CASE p.act = "skip" -> g1
      [] p.act = "missing" -> [g1 EXCEPT !.missing_files = @ + 1]
      [] p.act = "duplicate" -> [g1 EXCEPT !.duplicates_skipped = @ + 1]
      [] OTHER ->
         LET copied == p.dst \notin DOMAIN g.c.img
             prev == IF p.dst \in DOMAIN g.c.lbl THEN g.c.lbl[p.dst] ELSE <<>>
             written == ~g.incremental \/ prev # p.lines
             entry == [hash |-> p.img_hash, split |-> p.split, image |-> p.dst,
                       label |-> p.dst, num_boxes |-> Len(p.lines),
                       session_id |-> session_id, photo_id |-> p.photo_id,
                       source_key |-> p.source_key, decision |-> "defect"]
         IN  [g1 EXCEPT
                !.c.img = IF copied
                          THEN Put(@, p.dst, CopiedImage(BlobOf(files, session_id, ph)))
                          ELSE @,
                !.c.lbl = IF written THEN Put(@, p.dst, p.lines) ELSE @,
                !.updated_images = @ + (IF copied THEN 1 ELSE 0),
                !.updated_labels = @ + (IF written THEN 1 ELSE 0),
                !.photos_included = @ + 1,
                !.total_boxes_kept = @ + Len(p.lines),
                !.manifest = Put(@, p.img_hash, entry),
                !.existing_hashes = Put(@, p.img_hash, entry)]))

RECURSIVE GlobalPhotos(_, _, _, _)
GlobalPhotos(g, session_id, photos, files) ==
    IF photos = <<>> THEN g
    ELSE Bind(GlobalPhoto(g, session_id, Head(photos), files), LAMBDA g1 :
              GlobalPhotos(g1, session_id, Tail(photos), files))

RECURSIVE SumBoxes(_, _)
\* dataset_builder.py:883-889
SumBoxes(entries, ks) ==
    IF ks = {} THEN 0
    ELSE LET k == CHOOSE k \in ks : TRUE
         IN  entries[k].num_boxes + SumBoxes(entries, ks \ {k})

\* A mutant: the build never fails for too few objects.
EnoughAlways(total_objects, min_obj) == FALSE

\* dataset_builder.py:891
TooFew(total_objects, min_obj) == total_objects < min_obj

\* dataset_builder.py:874-940: the splits are made non-empty, the manifest and
\* data.yaml are written, and the build fails when the objects are too few
GlobalFinish(g) ==
    Bind(_ensure_nonempty_train_val(g.c, g.manifest), LAMBDA E :
    LET total_objects == SumBoxes(E.entries, DOMAIN E.entries)
    IN  [cf |-> g.cf,
         c |-> [E.c EXCEPT !.man = FullFile(ManifestDoc(E.entries)),
                           !.yaml = YamlOf(g.classes)],
         err |-> IF TooFew(total_objects, g.min_obj) THEN "ValueError" ELSE "",
         total_objects |-> total_objects,
         min_train_objects |-> g.min_obj,
         classes |-> g.classes,
         sessions_scanned |-> g.sessions_scanned,
         photos_scanned |-> g.photos_scanned,
         photos_included |-> g.photos_included,
         duplicates_skipped |-> g.duplicates_skipped,
         missing_files |-> g.missing_files,
         invalid_boxes_skipped |-> g.invalid_boxes_skipped,
         updated_images |-> g.updated_images,
         updated_labels |-> g.updated_labels])

RECURSIVE GlobalSessions(_, _, _, _, _)
\* dataset_builder.py:743-872: the sessions in the order of the listing.  sfs
\* maps a session id to its file.
GlobalSessions(g, sfs, order, files, now) ==
    IF order = <<>> THEN [g |-> g, sfs |-> sfs]
    ELSE Bind(GlobalLoad(g, sfs[Head(order)], Head(order), now), LAMBDA L :
         Bind(GlobalPhotos(L.g, Head(order), L.photos, files), LAMBDA g1 :
              GlobalSessions(g1, [sfs EXCEPT ![Head(order)] = L.sf],
                             Tail(order), files, now)))

\* dataset_builder.py:666-940, order being the listing of SESSIONS_DIR
build_yolo_det_dataset_from_all_sessions(cf, sfs, files, c0, order, incremental, seed, min_train_objects, now) ==
    Bind(GlobalStart(cf, c0, incremental, seed, min_train_objects), LAMBDA g0 :
    Bind(GlobalSessions(g0, sfs, order, files, now), LAMBDA S :
    [out |-> GlobalFinish(S.g), sfs |-> S.sfs]))

-----------------------------------------------------------------------------
(* The accumulated corpus of session s1 under builds, prunes and stats      *)

vOtherCase == [vInside EXCEPT !.cls = "Korroziya"]
vNewClass == [vInside EXCEPT !.cls = "novyj klass"]

\* The labels a photo of the session may carry.
CorpusPhotos(photo_id) ==
    {LabelledPhoto(photo_id, l[1], l[2]) :
        l \in IF photo_id = "p1"
              THEN {<<None, <<>> >>, <<"defect", <<vInside>> >>,
                    <<"defect", <<vOtherCase>> >>}
              ELSE {<<"defect", <<vInside>> >>, <<"defect", <<vNewClass>> >>,
                    <<"defect", <<vTooWide>> >>, <<"ok", <<vInside>> >>}}

CorpusSessions ==
    {SessionDoc(SID, 1, DEFECT_CLASSES_RU, ps) :
        ps \in {<<p>> : p \in CorpusPhotos("p1") \cup CorpusPhotos("p2")}
               \cup {<<p, q>> : p \in CorpusPhotos("p1"), q \in CorpusPhotos("p2")}}

\* storage.py:43-80: the stored upload of a photo, its content and its day
Upload(session_id, photo_id) ==
    [hash |-> IF photo_id = "p1" THEN "h1" ELSE "h2",
     mtime |-> IF photo_id = "p1" THEN 1 ELSE 2]

\* The uploads directory of the session: the files of fs, a set of photo ids
UploadsOf(session_id, fs) ==
    [k \in {<<session_id, StoredName(photo_id)>> : photo_id \in fs} |->
        Upload(session_id, IF k[2] = StoredName("p1") THEN "p1" ELSE "p2")]

InitCorpus ==
    /\ StoreIdle
    /\ rd = NoRead
    /\ classesFile = FullFile(RegistryDoc(DEFECT_CLASSES_RU))
    /\ sessionFile \in {FullFile(d) : d \in CorpusSessions}
    /\ \E fs \in {{"p1", "p2"}, {"p1"}} :
          /\ uploads = {StoredName(photo_id) : photo_id \in fs}
          /\ blobs = UploadsOf(SID, fs)
    /\ ret = NoRet
    /\ th = <<>>
    /\ nops = 0
    /\ sessionFile2 = Missing
    /\ accum = [t |-> "none"]
    /\ arch = {}
    /\ gds = [t |-> "none"]
    /\ gb = [pc |-> "idle"]
    /\ mm = [t |-> "none"]
    /\ tj = [t |-> "none"]

\* routes.py:1301
SessionBuild(incremental) ==
    \E R \in {build_accumulated_dataset_for_session(classesFile, sessionFile, blobs,
                                                    accum, SID, incremental, Now)} :
        /\ Step
        /\ classesFile' = R.cf
        /\ sessionFile' = R.sf
        /\ accum' = R.c
        /\ ret' = [op |-> "build_session", err |-> R.err, incremental |-> incremental,
                   before |-> ReadManifest(_ensure_yolo_skeleton(accum))]
        /\ UNCHANGED <<storeVars, rd, uploads, th, sessionFile2, blobs, arch, gds, gb, mm, tj>>

\* routes.py:868-893: POST /admin/accumulated/prune
Prune(keep_last_n, max_age_days, dry_run) ==
    \E newest \in NewestSets(_ensure_yolo_skeleton(accum), Max(0, keep_last_n)) :
    \E R \in {_accumulated_prune(accum, keep_last_n, newest, max_age_days, dry_run)} :
        /\ Step
        /\ accum' = R.c
        /\ ret' = [op |-> "prune", keep_last_n |-> keep_last_n,
                   max_age_days |-> max_age_days, dry_run |-> dry_run,
                   removed_images |-> R.removed_images,
                   removed_labels |-> R.removed_labels,
                   kept_images |-> R.kept_images,
                   before |-> _ensure_yolo_skeleton(accum)]
        /\ UNCHANGED <<storeVars, rd, classesFile, sessionFile, uploads, th,
                       sessionFile2, blobs, arch, gds, gb, mm, tj>>

\* routes.py:868-893: GET /admin/accumulated/stats
Stats ==
    \E S \in {_accumulated_stats(accum)} :
        /\ Step
        /\ accum' = S.c
        /\ ret' = [op |-> "stats", images |-> S.images, labels |-> S.labels,
                   manifest_items |-> S.manifest_items]
        /\ UNCHANGED <<storeVars, rd, classesFile, sessionFile, uploads, th,
                       sessionFile2, blobs, arch, gds, gb, mm, tj>>

\* The session files by session id, and the listings of SESSIONS_DIR: glob
\* yields the existing files in an order the file system chooses.
SessionFiles == [sid \in {"s1", "s2"} |-> IF sid = "s1" THEN sessionFile ELSE sessionFile2]
Listings ==
    {order \in {<<>>, <<"s1">>, <<"s2">>, <<"s1", "s2">>, <<"s2", "s1">>} :
        \A sid \in {"s1", "s2"} :
            SessionFiles[sid].exists <=> (\E i \in DOMAIN order : order[i] = sid)}

\* routes.py:1263, with the arguments of the function left open
GlobalBuild(order, incremental, seed, min_train_objects) ==
    \E R \in {build_yolo_det_dataset_from_all_sessions(
                  classesFile, SessionFiles, blobs, gds, order, incremental,
                  seed, min_train_objects, Now)} :
        /\ Step
        /\ classesFile' = R.out.cf
        /\ sessionFile' = R.sfs["s1"]
        /\ sessionFile2' = R.sfs["s2"]
        /\ gds' = R.out.c
        /\ ret' = [op |-> "build_global", err |-> R.out.err, order |-> order,
                   incremental |-> incremental, seed |-> seed,
                   min_train_objects |-> min_train_objects,
                   res |-> [R.out EXCEPT !.c = EmptyCorpus, !.cf = Missing],
                   before |-> ReadManifest(_ensure_yolo_skeleton(gds))]
        /\ UNCHANGED <<storeVars, rd, uploads, th, blobs, accum, arch, gb, mm, tj>>

PruneLimits == {NoLimit, 0, 1}
PruneAges == {NoLimit, 1}

NextCorpus ==
    \/ \E incremental \in BOOLEAN : SessionBuild(incremental)
    \/ \E n \in PruneLimits, d \in PruneAges, dry_run \in BOOLEAN : Prune(n, d, dry_run)
    \/ Stats
    \/ \E order \in Listings, min_train_objects \in {NotGiven, Given(1)} :
          GlobalBuild(order, TRUE, NotGiven, min_train_objects)

SpecCorpus == InitCorpus /\ [][NextCorpus]_vars

\* The manifest of the accumulated corpus, as stored
Manifest == ReadManifest(_ensure_yolo_skeleton(accum))

\* C11: after a session build, the split recorded for a photo is the split the
\* photo id determines, and it is the split the manifest recorded before the
\* build.
C11_SplitIsStable ==
    (ret.op = "build_session" /\ ret.err = "")
        => \A k \in DOMAIN Manifest :
              /\ Manifest[k].split = SplitName(split_is_val(Manifest[k].photo_id))
              /\ k \in DOMAIN ret.before => Manifest[k].split = ret.before[k].split

\* The corpus the last build wrote
BuiltCorpus == IF ret.op = "build_global" THEN gds ELSE accum
ImagesOf(c, split) == {k \in DOMAIN c.img : k[1] = split}
HasLabelledImage(c) == \E k \in DOMAIN c.img : k \in DOMAIN c.lbl

C13_ManifestFilesExist ==
    (\/ ret.op = "build_session" /\ ret.err = ""
     \/ ret.op = "prune")
        => \A k \in DOMAIN Manifest :
              /\ Manifest[k].image \in DOMAIN accum.img
              /\ Manifest[k].label \in DOMAIN accum.lbl

\* C18: a dry-run prune reports the number of images outside the keep-set, all
\* of them for keep_last_n = 0 alone, it leaves every image and label in place,
\* and stats counts afterwards what it counted before.
C18_DryRunDeletesNothing ==
    (ret.op = "prune" /\ ret.dry_run)
        => /\ ret.removed_images = Cardinality(DOMAIN ret.before.img) - ret.kept_images
           /\ (ret.keep_last_n = 0 /\ ret.max_age_days = NoLimit)
                 => ret.removed_images = Cardinality(DOMAIN ret.before.img)
           /\ accum.img = ret.before.img
           /\ accum.lbl = ret.before.lbl
           /\ _accumulated_stats(accum).images = _accumulated_stats(ret.before).images
           /\ _accumulated_stats(accum).labels = _accumulated_stats(ret.before).labels

\* A dry run with keep_last_n = 0 has reported images of a corpus that has some.
C18_Witness ==
    /\ ret.op = "prune" /\ ret.dry_run
    /\ ret.keep_last_n = 0
    /\ ret.removed_images > 0
    /\ DOMAIN accum.img # {}

-----------------------------------------------------------------------------
(* The global corpus built from the sessions s1 and s2                      *)

vProchee == [vInside EXCEPT !.cls = PROCHEE]

\* Session s1 with the photos p1 and p2, s2 with the photo p1
GlobalS1 ==
    {SessionDoc("s1", 1, DEFECT_CLASSES_RU, ps) :
        ps \in {<<LabelledPhoto("p1", "defect", <<vInside>>),
                  LabelledPhoto("p2", "defect", <<vNewClass, vProchee>>)>>,
                <<LabelledPhoto("p1", "defect", <<vOtherCase, vTooWide>>),
                  LabelledPhoto("p2", "ok", <<vInside>>)>>}}

GlobalS2 ==
    {SessionDoc("s2", 1, DEFECT_CLASSES_RU, <<p>>) :
        p \in {LabelledPhoto("p1", "defect", bs) :
                  bs \in {<<vInside>>, <<vNewClass, vInside>>}}}

\* The registry and s1 as they are, or after the class "novyj klass" was added
\* through s1
WithClass(s1, added) ==
    IF added
    THEN LET A == add_class_to_session(FullFile(RegistryDoc(DEFECT_CLASSES_RU)),
                                       FullFile(s1), "s1", "novyj klass", 1)
         IN  [cf |-> A.cf, sf |-> A.sf]
    ELSE [cf |-> FullFile(RegistryDoc(DEFECT_CLASSES_RU)), sf |-> FullFile(s1)]

\* The uploads: p2 of s1 and p1 of s2 may have the content of p1 of s1
GlobalUploads(h12, h21) ==
    [k \in {<<"s1", "p1.jpg">>, <<"s1", "p2.jpg">>, <<"s2", "p1.jpg">>} |->
        [hash |-> CASE k = <<"s1", "p1.jpg">> -> "h1"
                    [] k = <<"s1", "p2.jpg">> -> h12
                    [] OTHER -> h21,
         mtime |-> 1]]

InitGlobal ==
    /\ StoreIdle
    /\ rd = NoRead
    /\ \E s1 \in GlobalS1, added \in BOOLEAN :
          /\ classesFile = WithClass(s1, added).cf
          /\ sessionFile = WithClass(s1, added).sf
    /\ sessionFile2 \in {Missing} \cup {FullFile(d) : d \in GlobalS2}
    /\ \E h \in {<<"h2", "h3">>, <<"h1", "h3">>, <<"h2", "h1">>} :
          blobs = GlobalUploads(h[1], h[2])
    /\ uploads = {StoredName("p1"), StoredName("p2")}
    /\ ret = NoRet
    /\ th = <<>>
    /\ nops = 0
    /\ accum = [t |-> "none"]
    /\ arch = {}
    /\ gds = [t |-> "none"]
    /\ gb = [pc |-> "idle"]
    /\ mm = [t |-> "none"]
    /\ tj = [t |-> "none"]

\* The arguments of the builds
GlobalArgs ==
    {<<TRUE, NotGiven, NotGiven>>, <<TRUE, NotGiven, Given(0)>>,
     <<FALSE, Given(0), Given(2)>>}

NextGlobal ==
    \E order \in Listings, a \in GlobalArgs : GlobalBuild(order, a[1], a[2], a[3])

SpecGlobal == InitGlobal /\ [][NextGlobal]_vars

\* The manifest of the global corpus, as stored
GManifest == ReadManifest(_ensure_yolo_skeleton(gds))

\* The photos of the stored sessions in the order the last build met them
PhotosIn(sid) == SessionFiles[sid].doc.photos
RECURSIVE EncounterOf(_)
EncounterOf(order) ==
    IF order = <<>> THEN <<>>
    ELSE [i \in 1..Len(PhotosIn(Head(order))) |->
             [sid |-> Head(order), ph |-> PhotosIn(Head(order))[i]]]
         \o EncounterOf(Tail(order))
Encounter == EncounterOf(ret.order)

\* A photo that has something to contribute: a defect with a valid bbox and a
\* stored file
Contributes(e) ==
    /\ e.ph.labels.decision = "defect"
    /\ \E i \in DOMAIN e.ph.labels.bboxes : GeometricallyValid(e.ph.labels.bboxes[i])
    /\ <<e.sid, e.ph.stored_name>> \in DOMAIN blobs
ContentOf(e) == blobs[<<e.sid, e.ph.stored_name>>].hash
Sharing(h) == {i \in DOMAIN Encounter : Contributes(Encounter[i]) /\ ContentOf(Encounter[i]) = h}
Contents == {ContentOf(Encounter[i]) : i \in {j \in DOMAIN Encounter : Contributes(Encounter[j])}}
FirstOf(S) == CHOOSE i \in S : \A j \in S : i <= j

\* C14: after a global build the photos that share a content have one manifest
\* entry; one photo per content is counted as included and every further one
\* as a skipped duplicate; the entry names as its source the photo that wrote
\* it first: the source it had before the build, or the first photo met.
C14_OneEntryPerContent ==
    ret.op = "build_global" =>
        /\ \A h \in Contents :
              /\ Cardinality({k \in DOMAIN GManifest : GManifest[k].hash = h}) = 1
              /\ h \in DOMAIN GManifest
              /\ GManifest[h].source_key =
                    IF h \in DOMAIN ret.before THEN ret.before[h].source_key
                    ELSE <<Encounter[FirstOf(Sharing(h))].sid,
                           Encounter[FirstOf(Sharing(h))].ph.photo_id>>
        /\ ret.res.photos_included = Cardinality(Contents)
        /\ ret.res.duplicates_skipped =
              Cardinality({i \in DOMAIN Encounter : Contributes(Encounter[i])})
                 - Cardinality(Contents)

\* A rebuild met a duplicate before the photo that had written the entry, and
\* the entry still names that photo.
C14_Witness ==
    /\ ret.op = "build_global"
    /\ ret.res.duplicates_skipped > 0
    /\ \E h \in Contents :
          /\ h \in DOMAIN ret.before
          /\ GManifest[h].source_key # <<Encounter[FirstOf(Sharing(h))].sid,
                                         Encounter[FirstOf(Sharing(h))].ph.photo_id>>

\* The bboxes of the photo an entry names as its source
SourcePhoto(e) ==
    LET photos == PhotosIn(e.session_id)
    IN  photos[CHOOSE i \in DOMAIN photos : photos[i].photo_id = e.photo_id]
ValidBBoxes(ph) == SelectSeq(ph.labels.bboxes, GeometricallyValid)

\* The position of a name in the list, names compared without case and
\* surrounding space, and the position of the sentinel when it is not there
PositionOf(names, cls) ==
    IF \E i \in DOMAIN names : _norm_key(names[i]) = _norm_key(cls)
    THEN (CHOOSE i \in DOMAIN names : _norm_key(names[i]) = _norm_key(cls)) - 1
    ELSE (CHOOSE i \in DOMAIN names : names[i] = PROCHEE) - 1

\* C15: after a global build every line of every label file starts with the
\* position, in the names of data.yaml, of the class of the bbox it was written
\* for (or of the sentinel when the names do not have the class); the names are
\* those of the registry, and the index is one of the list.
C15_IndexFromRegistry ==
    ret.op = "build_global" =>
        /\ {gds.yaml.names[i] : i \in DOMAIN gds.yaml.names}
              = {Registry[i] : i \in DOMAIN Registry} \cup {PROCHEE}
        /\ \A k \in DOMAIN gds.lbl :
              LET boxes == ValidBBoxes(SourcePhoto(GManifest[k[2]]))
                  lines == gds.lbl[k]
              IN  /\ Len(lines) = Len(boxes)
                  /\ \A i \in DOMAIN lines :
                        /\ lines[i][1] = PositionOf(gds.yaml.names, boxes[i].cls)
                        /\ lines[i][1] \in 0..(Len(gds.yaml.names) - 1)

\* A label line carries an index that is not the position of its class in the
\* snapshot of the session it comes from, although the snapshot has the class.
C15_Witness ==
    /\ ret.op = "build_global"
    /\ \E k \in DOMAIN gds.lbl :
          LET e == GManifest[k[2]]
              boxes == ValidBBoxes(SourcePhoto(e))
              snapshot == SessionFiles[e.session_id].doc.classes
          IN  \E i \in DOMAIN boxes :
                 /\ IndexOf(snapshot, boxes[i].cls) >= 0
                 /\ IndexOf(snapshot, boxes[i].cls) # gds.lbl[k][i][1]

\* The threshold of the last build: the argument, 1 when it is not positive,
\* the default when there is none
Threshold ==
    IF ~ret.min_train_objects.is_int THEN 50
    ELSE IF ret.min_train_objects.v <= 0 THEN 1 ELSE ret.min_train_objects.v

\* C16: when the boxes of the manifest after a global build are fewer than the
\* threshold, the build has raised, and manifest.json and data.yaml are stored
\* whole: the manifest with the entry of every content of this build, data.yaml
\* with the classes of this build.
C16_GateLeavesFiles ==
    (ret.op = "build_global" /\ SumBoxes(GManifest, DOMAIN GManifest) < Threshold)
        => /\ ret.err = "ValueError"
           /\ IsComplete(gds.man) /\ gds.man.doc.t = "manifest"
           /\ Contents \subseteq DOMAIN GManifest
           /\ gds.yaml.exists /\ gds.yaml.names = ret.res.classes

\* A build with two objects required has failed with one object in the corpus.
C16_Witness ==
    /\ ret.op = "build_global"
    /\ ret.err = "ValueError"
    /\ Threshold = 2
    /\ SumBoxes(GManifest, DOMAIN GManifest) = 1
    /\ IsComplete(gds.man)

-----------------------------------------------------------------------------
(* The global build step by step, with the process killed on the way        *)

\* The build in progress: what GlobalStart and the loop hold in memory (g),
\* the sessions still to load, the photos of the loaded session still to do.
\* base is the corpus the interrupted build before this one had started from,
\* or the corpus this build starts from.
Running(g, order, incremental, base, resumed) ==
    [pc |-> "run", g |-> g, order |-> order, listing |-> order, sid |-> "",
     todo |-> <<>>, incremental |-> incremental, base |-> base, resumed |-> resumed]

\* dataset_builder.py:682-741
ResumeStart(order, incremental) ==
    \E g \in {GlobalStart(classesFile, gds, incremental, NotGiven, Given(0))} :
        /\ gb.pc = "idle"
        /\ Step
        /\ gb' = Running(g, order, incremental,
                         IF ret.op = "crash" THEN ret.base ELSE g.c,
                         ret.op = "crash")
        /\ gds' = g.c
        /\ classesFile' = g.cf
        /\ UNCHANGED <<storeVars, rd, sessionFile, uploads, ret, th, sessionFile2,
                       blobs, accum, arch, mm, tj>>

\* dataset_builder.py:743-750
ResumeSession ==
    /\ gb.pc = "run" /\ gb.todo = <<>> /\ gb.order # <<>>
    /\ \E L \in {GlobalLoad(gb.g, SessionFiles[Head(gb.order)], Head(gb.order), Now)} :
          /\ gb' = [gb EXCEPT !.g = L.g, !.sid = Head(gb.order),
                              !.order = Tail(gb.order), !.todo = L.photos]
          /\ classesFile' = L.g.cf
          /\ sessionFile' = IF Head(gb.order) = "s1" THEN L.sf ELSE sessionFile
          /\ sessionFile2' = IF Head(gb.order) = "s2" THEN L.sf ELSE sessionFile2
    /\ UNCHANGED <<storeVars, rd, uploads, ret, th, nops, blobs, accum, arch, gds, mm, tj>>

\* dataset_builder.py:751-872
ResumePhoto ==
    /\ gb.pc = "run" /\ gb.todo # <<>>
    /\ \E g \in {GlobalPhoto(gb.g, gb.sid, Head(gb.todo), blobs)} :
          /\ gb' = [gb EXCEPT !.g = g, !.todo = Tail(gb.todo)]
          /\ gds' = g.c
    /\ UNCHANGED <<storeVars, rd, sessVars, sessionFile2, blobs, accum, arch, mm, tj>>

\* The process is killed between two steps.
ResumeCrash ==
    /\ gb.pc = "run"
    /\ gb' = [pc |-> "idle"]
    /\ ret' = [op |-> "crash", base |-> gb.base]
    /\ UNCHANGED <<storeVars, rd, classesFile, sessionFile, uploads, th, nops,
                   sessionFile2, blobs, accum, arch, gds, mm, tj>>

\* dataset_builder.py:833-838: the process is killed inside shutil.copy2, when
\* n chunks of the image have reached the destination.
ResumeCrashInCopy(n) ==
    /\ gb.pc = "run" /\ gb.todo # <<>>
    /\ Head(gb.todo).is_dict
    /\ \E p \in {PhotoPlan(gb.g, gb.sid, Head(gb.todo), blobs)} :
          /\ p.act = "write"
          /\ p.dst \notin DOMAIN gb.g.c.img
          /\ gds' = [gb.g.c EXCEPT !.img =
                        Put(@, p.dst, [n |-> n, hash |-> p.img_hash, mtime |-> Today])]
    /\ gb' = [pc |-> "idle"]
    /\ ret' = [op |-> "crash", base |-> gb.base]
    /\ UNCHANGED <<storeVars, rd, classesFile, sessionFile, uploads, th, nops,
                   sessionFile2, blobs, accum, arch, mm, tj>>

\* dataset_builder.py:874-940
ResumeFinish ==
    /\ gb.pc = "run" /\ gb.todo = <<>> /\ gb.order = <<>>
    /\ \E F \in {GlobalFinish(gb.g)} :
          /\ gds' = F.c
          /\ ret' = [op |-> "build_global", err |-> F.err, order |-> gb.listing,
                     incremental |-> gb.incremental, seed |-> NotGiven,
                     min_train_objects |-> Given(0),
                     res |-> [F EXCEPT !.c = EmptyCorpus, !.cf = Missing],
                     before |-> ReadManifest(gb.base),
                     base |-> gb.base, resumed |-> gb.resumed]
    /\ gb' = [pc |-> "idle"]
    /\ UNCHANGED <<storeVars, rd, classesFile, sessionFile, uploads, th, nops,
                   sessionFile2, blobs, accum, arch, mm, tj>>

NextResume ==
    \/ \E order \in Listings, incremental \in BOOLEAN : ResumeStart(order, incremental)
    \/ ResumeSession
    \/ ResumePhoto
    \/ ResumeCrash
    \/ \E n \in 0..(Chunks - 1) : ResumeCrashInCopy(n)
    \/ ResumeFinish

SpecResume == InitGlobal /\ [][NextResume]_vars

\* The corpus an uninterrupted build leaves, started from the corpus the
\* interrupted build had found, with the arguments of the build that followed
Uninterrupted ==
    build_yolo_det_dataset_from_all_sessions(
        classesFile, SessionFiles, blobs, ret.base, ret.order, ret.incremental,
        ret.seed, ret.min_train_objects, Now).out.c

\* C17: when a global build was interrupted, the stored manifest names only
\* files that exist; and when the build that followed has completed, manifest,
\* images and labels are those of an uninterrupted build.
C17_ResumeEqualsUninterrupted ==
    /\ ret.op = "crash" =>
          \A k \in DOMAIN GManifest :
              /\ GManifest[k].image \in DOMAIN gds.img
              /\ GManifest[k].label \in DOMAIN gds.lbl
    /\ (ret.op = "build_global" /\ ret.resumed) =>
          /\ gds.man = Uninterrupted.man
          /\ gds.img = Uninterrupted.img
          /\ gds.lbl = Uninterrupted.lbl

-----------------------------------------------------------------------------
(* Rotations of the accumulated corpus, routes.py:214-251.  arch holds the  *)
(* archives: name <<ts, ns>> and born, the number of the rotation that made *)
(* it.  The clock of the last rotation is kept in ret.                      *)

MaxRot == 3        \* rotations per behaviour

\* A corpus that a session build has filled
FilledCorpus ==
    build_accumulated_dataset_for_session(
        FullFile(RegistryDoc(DEFECT_CLASSES_RU)),
        FullFile(SessionDoc(SID, 1, DEFECT_CLASSES_RU,
                            <<LabelledPhoto("p1", "defect", <<vInside>>)>>)),
        UploadsOf(SID, {"p1"}), [t |-> "none"], SID, TRUE, 1).c

InitRotate ==
    /\ StoreIdle
    /\ rd = NoRead
    /\ SessIdle
    /\ sessionFile2 = Missing
    /\ blobs = <<>>
    /\ accum \in {[t |-> "none"], EmptyCorpus, FilledCorpus}
    /\ arch = {}
    /\ gds = [t |-> "none"]
    /\ gb = [pc |-> "idle"]
    /\ mm = [t |-> "none"]
    /\ tj = [t |-> "none"]

\* time.strftime and _now_ns of the last rotation; second 1 before the first
LastTs == IF ret.op = "rotate" THEN ret.ts ELSE 1
LastNs == IF ret.op = "rotate" THEN ret.ns ELSE 0

\* routes.py:881-893: POST /admin/accumulated/rotate, in the second ts of a
\* clock that does not go back
Rotate(keep_archives, ts) ==
    \E R \in {_accumulated_rotate(accum, {a.name : a \in arch}, keep_archives,
                                  ts, LastNs + 1)} :
        /\ nops < MaxRot
        /\ nops' = nops + 1
        /\ accum' = R.c
        /\ arch' = {a \in arch \cup {[name |-> R.archived_to, born |-> nops + 1,
                                       c |-> _ensure_yolo_skeleton(accum)]} :
                       a.name \in R.archives}
        /\ ret' = [op |-> "rotate", keep_archives |-> keep_archives, ts |-> ts,
                   ns |-> LastNs + 1, archived_to |-> R.archived_to,
                   removed_archives |-> R.removed_archives,
                   corpus |-> _ensure_yolo_skeleton(accum),
                   before |-> arch \cup {[name |-> R.archived_to, born |-> nops + 1,
                                          c |-> _ensure_yolo_skeleton(accum)]}]
        /\ UNCHANGED <<storeVars, rd, classesFile, sessionFile, uploads, th,
                       sessionFile2, blobs, gds, gb, mm, tj>>

NextRotate ==
    \E keep_archives \in 0..3, ts \in {LastTs, LastTs + 1} : Rotate(keep_archives, ts)

SpecRotate == InitRotate /\ [][NextRotate]_vars

\* C19: after rotate(keep_archives = k) the corpus is the empty skeleton without
\* manifest, at most k archives are left, and every archive that was deleted
\* is older than every archive that was kept.
C19_RotateKeepsNewest ==
    ret.op = "rotate" =>
        /\ accum = EmptyCorpus
        /\ Cardinality(arch) <= ret.keep_archives
        /\ \A d \in ret.before \ arch, a \in arch : d.born < a.born

-----------------------------------------------------------------------------
(* ModelManager.get, model_manager.py:218-265.  mm is the manager: _model   *)
(* is 0 for None and otherwise the number of the load that made the model.  *)

NCallers == 2      \* threads that call ModelManager.get
Callers == 1..NCallers

\* The serving weight file: its content, its mtime and its size
OldWeights == [content |-> "old", mtime_ns |-> 1, size |-> 1]

\* A mutant: the key is the path alone.
PathOnly(weights) == <<"model.pt">>

\* model_manager.py:90-107: path, mtime_ns and size of the file
_weights_key(weights) == <<"model.pt", weights.mtime_ns, weights.size>>

\* The key of the weights as they are at the start
WK == _weights_key(OldWeights)

\* The classes of the registry and the class lists a weight file may carry
RegistryNames == <<"treshchiny", "prochee">>
ModelNames == {RegistryNames, <<"Treshchiny", "prochee">>, <<"treshchiny">>}

\* model_manager.py:434-435: [_norm(x) for x in names], lower case on the
\* names of this model
NormNames(names) == [i \in DOMAIN names |-> _norm_key(names[i])]

\* model_manager.py:428-443: TRUE when _validate_strict_if_needed raises
_validate_strict_if_needed(m, model_names) ==
    m.INFER_STRICT_MODEL_CLASSES /\ NormNames(m.registry) # NormNames(model_names)

\* model_manager.py:154-169, and a manager that holds a model of other
\* weights.  weights is the file on disk, loaded the content each load read.
FreshManager(use_seg) ==
    [_model |-> 0, _weights_key |-> <<>>, _use_seg |-> FALSE, _load_lock |-> 0,
     loads |-> 0, INFER_USE_SEGMENTATION |-> use_seg, fresh |-> TRUE,
     weights |-> OldWeights, loaded |-> <<>>,
     _names |-> <<>>, model_names |-> RegistryNames, registry |-> RegistryNames,
     INFER_STRICT_MODEL_CLASSES |-> FALSE]
StaleManager(use_seg) ==
    [FreshManager(use_seg) EXCEPT !._model = 0 - 1, !._weights_key = <<"model.pt", 0, 1>>,
                                  !._names = RegistryNames,
                                  !.fresh = FALSE]

\* A thread that has not called get: wk is the key it computes at line 238,
\* after_done whether it called after the train job was done
IdleCaller ==
    [pc |-> "idle", load_if_needed |-> TRUE, need_reload |-> FALSE, saw_none |-> FALSE,
     model |-> 0, wk |-> <<>>, after_done |-> FALSE]

InitModel ==
    /\ StoreIdle
    /\ rd = NoRead
    /\ classesFile = Missing
    /\ sessionFile = Missing
    /\ uploads = {}
    /\ ret = NoRet
    /\ nops = 0
    /\ th = [t \in Callers |-> IdleCaller]
    /\ sessionFile2 = Missing
    /\ blobs = <<>>
    /\ accum = [t |-> "none"]
    /\ arch = {}
    /\ gds = [t |-> "none"]
    /\ gb = [pc |-> "idle"]
    /\ mm \in {FreshManager(s) : s \in BOOLEAN} \cup {StaleManager(s) : s \in BOOLEAN}
    /\ tj = [t |-> "none"]

ModelFrame ==
    UNCHANGED <<storeVars, rd, classesFile, sessionFile, uploads, ret, nops,
                sessionFile2, blobs, accum, arch, gds, gb, tj>>

\* The train run of the process, if there is one, has written done
TrainDone == \E u \in DOMAIN th : th[u].pc = "train_done"

\* model_manager.py:218-238: the call, up to the stat of the weight file
CallGet(t, load_if_needed) ==
    /\ th[t].pc = "idle"
    /\ th' = [th EXCEPT ![t].pc = "read_model", ![t].load_if_needed = load_if_needed,
                        ![t].wk = _weights_key(mm.weights),
                        ![t].after_done = TrainDone]
    /\ UNCHANGED mm
    /\ ModelFrame

\* model_manager.py:239: self._model is None or ...
ReadModel(t) ==
    /\ th[t].pc = "read_model"
    /\ th' = [th EXCEPT ![t].pc = IF mm._model = 0 THEN "decided" ELSE "read_key",
                        ![t].need_reload = (mm._model = 0),
                        ![t].saw_none = (mm._model = 0)]
    /\ UNCHANGED mm
    /\ ModelFrame

\* model_manager.py:239: ... or self._weights_key != wk or ...
ReadKey(t) ==
    /\ th[t].pc = "read_key"
    /\ th' = [th EXCEPT ![t].pc = IF mm._weights_key # th[t].wk THEN "decided" ELSE "read_seg",
                        ![t].need_reload = (mm._weights_key # th[t].wk)]
    /\ UNCHANGED mm
    /\ ModelFrame

\* model_manager.py:239: ... or self._use_seg != use_seg
ReadSeg(t) ==
    /\ th[t].pc = "read_seg"
    /\ th' = [th EXCEPT ![t].pc = "decided",
                        ![t].need_reload = (mm._use_seg # mm.INFER_USE_SEGMENTATION)]
    /\ UNCHANGED mm
    /\ ModelFrame

\* model_manager.py:244-247: without load_if_needed the current model is
\* returned; with it the lock is taken when a reload seemed needed
Decide(t) ==
    /\ th[t].pc = "decided"
    /\ th' = [th EXCEPT
                ![t].pc = IF ~th[t].load_if_needed THEN "done"
                          ELSE IF th[t].need_reload THEN "acquire" ELSE "return",
                ![t].model = IF ~th[t].load_if_needed THEN mm._model ELSE @]
    /\ UNCHANGED mm
    /\ ModelFrame

\* model_manager.py:248: with self._load_lock
Acquire(t) ==
    /\ th[t].pc = "acquire"
    /\ mm._load_lock = 0
    /\ mm' = [mm EXCEPT !._load_lock = t]
    /\ th' = [th EXCEPT ![t].pc = "recheck"]
    /\ ModelFrame

\* A mutant: the decision taken before the lock is not checked again.
NoSecondCheck(m, wk, need_reload) == need_reload

\* model_manager.py:249
need_reload2(m, wk, need_reload) ==
    m._model = 0 \/ m._weights_key # wk \/ m._use_seg # m.INFER_USE_SEGMENTATION

\* model_manager.py:249-250
Recheck(t) ==
    /\ th[t].pc = "recheck"
    /\ th' = [th EXCEPT ![t].pc = IF need_reload2(mm, th[t].wk, th[t].need_reload)
                                  THEN "load" ELSE "unlock"]
    /\ UNCHANGED mm
    /\ ModelFrame

\* model_manager.py:257: self._model = YOLO(str(weights)).  A file that is
\* being overwritten cannot be loaded: the exception leaves get and the with
\* block.
Load(t) ==
    /\ th[t].pc = "load"
    /\ IF mm.weights.content = "torn"
       THEN /\ mm' = [mm EXCEPT !._load_lock = 0]
            /\ th' = [th EXCEPT ![t].pc = "raised"]
       ELSE /\ mm' = [mm EXCEPT !._model = mm.loads + 1, !.loads = @ + 1,
                                !.loaded = Append(@, mm.weights.content)]
            /\ th' = [th EXCEPT ![t].pc = "set_key"]
    /\ ModelFrame

\* model_manager.py:258
SetKey(t) ==
    /\ th[t].pc = "set_key"
    /\ mm' = [mm EXCEPT !._weights_key = th[t].wk]
    /\ th' = [th EXCEPT ![t].pc = "set_seg"]
    /\ ModelFrame

\* model_manager.py:259
SetSeg(t) ==
    /\ th[t].pc = "set_seg"
    /\ mm' = [mm EXCEPT !._use_seg = mm.INFER_USE_SEGMENTATION]
    /\ th' = [th EXCEPT ![t].pc = "names"]
    /\ ModelFrame

\* model_manager.py:261-263: the names of the loaded model are stored, then
\* checked; the ValueError leaves get and the with block
SetNames(t) ==
    /\ th[t].pc = "names"
    /\ IF _validate_strict_if_needed(mm, mm.model_names)
       THEN /\ mm' = [mm EXCEPT !._names = mm.model_names, !._load_lock = 0]
            /\ th' = [th EXCEPT ![t].pc = "raised"]
       ELSE /\ mm' = [mm EXCEPT !._names = mm.model_names]
            /\ th' = [th EXCEPT ![t].pc = "unlock"]
    /\ ModelFrame

\* model_manager.py:248-263: the end of the with block
Release(t) ==
    /\ th[t].pc = "unlock"
    /\ mm' = [mm EXCEPT !._load_lock = 0]
    /\ th' = [th EXCEPT ![t].pc = "return"]
    /\ ModelFrame

\* model_manager.py:265
Return(t) ==
    /\ th[t].pc = "return"
    /\ th' = [th EXCEPT ![t].pc = "done", ![t].model = mm._model]
    /\ UNCHANGED mm
    /\ ModelFrame

\* The steps of thread t in get
GetSteps(t) ==
    \/ \E load_if_needed \in BOOLEAN : CallGet(t, load_if_needed)
    \/ ReadModel(t) \/ ReadKey(t) \/ ReadSeg(t) \/ Decide(t)
    \/ Acquire(t) \/ Recheck(t) \/ Load(t) \/ SetKey(t) \/ SetSeg(t) \/ SetNames(t)
    \/ Release(t) \/ Return(t)

NextModel == \E t \in Callers : GetSteps(t)

SpecModel == InitModel /\ [][NextModel]_vars

\* C20: with no model cached at the start, the callers of
\* get(load_if_needed=True) cause one load at most, and each of them returns
\* the model of that load.
C20_LoadedOnce ==
    mm.fresh =>
        /\ mm.loads <= 1
        /\ \A t \in Callers :
              (th[t].pc = "done" /\ th[t].load_if_needed)
                 => mm.loads = 1 /\ th[t].model = 1

\* Every caller saw that there was no model, and all have returned the model
\* of the one load.
C20_Witness ==
    /\ mm.fresh /\ mm.loads = 1
    /\ \A t \in Callers :
          /\ th[t].pc = "done" /\ th[t].load_if_needed
          /\ th[t].saw_none
          /\ th[t].model = 1

-----------------------------------------------------------------------------
(* Session builds repeated and interleaved with label edits                 *)

MaxRebuildOps == 3    \* builds and label edits per behaviour

\* Session s1 with the photos p1 and p2 as set_photo_labels stores them
RebuildSessions ==
    {SessionDoc(SID, 1, DEFECT_CLASSES_RU, ps) :
        ps \in {<<LabelledPhoto("p1", "defect", <<vInside>>),
                  LabelledPhoto("p2", "defect", <<vInside>>)>>,
                <<LabelledPhoto("p1", "defect", <<vProchee>>),
                  LabelledPhoto("p2", "defect", <<vNewClass>>)>>,
                <<LabelledPhoto("p1", "defect", <<vOtherCase>>),
                  LabelledPhoto("p2", "ok", <<>>)>>}}

\* The label edits of the operator
RebuildPatches ==
    { [decision |-> "ok"],
      [bboxes |-> <<>>],
      [decision |-> "defect", bboxes |-> <<bbKorr, bbOut>>],
      [decision |-> "defect", bboxes |-> <<bbNovyj>>] }

InitRebuild ==
    /\ StoreIdle
    /\ rd = NoRead
    /\ classesFile = FullFile(RegistryDoc(DEFECT_CLASSES_RU))
    /\ sessionFile \in {FullFile(d) : d \in RebuildSessions}
    /\ \E fs \in {{"p1", "p2"}, {"p1"}} :
          /\ uploads = {StoredName(photo_id) : photo_id \in fs}
          /\ blobs = UploadsOf(SID, fs)
    /\ ret = NoRet
    /\ th = <<>>
    /\ nops = 0
    /\ sessionFile2 = Missing
    /\ accum = [t |-> "none"]
    /\ arch = {}
    /\ gds = [t |-> "none"]
    /\ gb = [pc |-> "idle"]
    /\ mm = [t |-> "none"]
    /\ tj = [t |-> "none"]

\* routes.py:1301: the build of a train request; lines 594-601: its counts
Rebuild(incremental) ==
    \E R \in {build_accumulated_dataset_for_session(classesFile, sessionFile, blobs,
                                                    accum, SID, incremental, Now)} :
        /\ nops < MaxRebuildOps
        /\ nops' = nops + 1
        /\ classesFile' = R.cf
        /\ sessionFile' = R.sf
        /\ accum' = R.c
        /\ ret' = [op |-> "build_session", err |-> R.err, incremental |-> incremental,
                   updated_images |-> R.updated_images,
                   updated_labels |-> R.updated_labels,
                   repeated |-> ret.op = "build_session",
                   classes_before |-> _ensure_prochee_last(
                       get_session_classes(classesFile, sessionFile, SID, Now).out),
                   img_before |-> _ensure_yolo_skeleton(accum).img,
                   lbl_before |-> _ensure_yolo_skeleton(accum).lbl]
        /\ UNCHANGED <<storeVars, rd, uploads, th, sessionFile2, blobs, arch, gds, gb, mm, tj>>

\* session_store.py:589-632: a label save between two builds
Relabel(photo_id, patch) ==
    \E R \in {set_photo_labels(classesFile, sessionFile, SID, photo_id, patch, Now)} :
        /\ nops < MaxRebuildOps
        /\ nops' = nops + 1
        /\ classesFile' = R.cf
        /\ sessionFile' = R.sf
        /\ ret' = [op |-> "set_photo_labels", photo_id |-> photo_id, err |-> R.err]
        /\ UNCHANGED <<dsVars, storeVars, rd, uploads, th>>

NextRebuild ==
    \/ \E incremental \in BOOLEAN : Rebuild(incremental)
    \/ \E photo_id \in {"p1", "p2"}, patch \in RebuildPatches : Relabel(photo_id, patch)

SpecRebuild == InitRebuild /\ [][NextRebuild]_vars

\* C27: an incremental session build that follows a session build, nothing
\* having been saved in between, copies no image and writes no label file: its
\* counts updated_images and updated_labels are 0 and every label file holds
\* what the previous build left.
C27_RepeatedBuildWritesNothing ==
    (ret.op = "build_session" /\ ret.incremental /\ ret.repeated)
        => /\ ret.updated_images = 0
           /\ ret.updated_labels = 0
           /\ accum.img = ret.img_before
           /\ accum.lbl = ret.lbl_before

\* The bboxes a label file is to hold: the geometrically valid ones of a photo
\* whose decision is "defect"
LabelledBBoxes(ph) ==
    IF ph.labels.decision = "defect"
    THEN SelectSeq(ph.labels.bboxes, GeometricallyValid)
    ELSE <<>>

\* cx = x + w/2, cy = y + h/2, w, h, with the six decimals of a label line
CentreForm(b) ==
    <<_round6(b.x + b.w \div 2), _round6(b.y + b.h \div 2), _round6(b.w), _round6(b.h)>>

\* The label file of a session photo: its lines without the class index, no
\* line when there is no file
LabelFileOf(ph) ==
    LET dst == <<SplitName(split_is_val(ph.photo_id)), <<SID, ph.photo_id>> >>
    IN  IF accum.t = "corpus" /\ dst \in DOMAIN accum.lbl
        THEN [i \in DOMAIN accum.lbl[dst] |-> SubSeq(accum.lbl[dst][i], 2, 5)]
        ELSE <<>>

LabelFileMatches(ph) ==
    LabelFileOf(ph) = [i \in DOMAIN LabelledBBoxes(ph) |-> CentreForm(LabelledBBoxes(ph)[i])]

\* C28: after a session build, the label file of every session photo whose
\* image resolves holds one line per geometrically valid bbox stored for the
\* photo if its decision is "defect", no line otherwise, and each line is the
\* centre form of its bbox.
C28_LabelFileMatchesBBoxes ==
    ret.op = "build_session"
        => \A i \in DOMAIN Session.photos :
              BlobOf(blobs, SID, Session.photos[i]).hash # None
                  => LabelFileMatches(Session.photos[i])

\* The same for the builds that return
ReturnedBuildMatches ==
    (ret.op = "build_session" /\ ret.err = "")
        => \A i \in DOMAIN Session.photos :
              BlobOf(blobs, SID, Session.photos[i]).hash # None
                  => LabelFileMatches(Session.photos[i])

\* A build has emptied the label file of a photo whose boxes were removed or
\* whose decision changed after the previous build wrote lines for it.
LinesRemoved ==
    /\ ret.op = "build_session" /\ ret.err = ""
    /\ \E k \in DOMAIN ret.lbl_before :
          /\ ret.lbl_before[k] # <<>>
          /\ k \in DOMAIN accum.lbl
          /\ accum.lbl[k] = <<>>

-----------------------------------------------------------------------------
(* What a prune deletes                                                     *)

\* The sets of the n most recently modified images of a corpus: n images (all
\* of them if there are fewer), none older than an image left out
MostRecent(c, n) ==
    {K \in SUBSET DOMAIN c.img :
        /\ Cardinality(K) = Min(n, Cardinality(DOMAIN c.img))
        /\ \A k \in K, o \in DOMAIN c.img \ K : c.img[o].mtime <= c.img[k].mtime}

\* The images modified within max_age_days of today
WithinAge(c, max_age_days) ==
    {k \in DOMAIN c.img : Today - c.img[k].mtime <= max_age_days}

\* The images a prune with these limits has to keep, for one choice among
\* images of equal age
KeepSets(c, keep_last_n, max_age_days) ==
    {K \cup (IF max_age_days # NoLimit THEN WithinAge(c, max_age_days) ELSE {}) :
        K \in IF keep_last_n # NoLimit THEN MostRecent(c, keep_last_n) ELSE {{}}}

-----------------------------------------------------------------------------
(* The train job ledger, train_job_store.py.  tj holds the directory of job *)
(* files, the index file, the log files, JOBS_LOCK, the clock in seconds    *)
(* and the identity of the process; two fields record history: first, the   *)
(* time of the first set_job write of a job id, and order, the job ids by   *)
(* their latest set_job write.                                               *)

MaxJobOps == 3     \* calls of the ledger per behaviour

\* train_job_store.py:34
JOB_STALE_SEC == 120

JobIds == {"train_1", "train_2"}

\* The log file of a job, settings.DATA_DIR / "train_logs" / f"{job_id}.log"
LogPathOf(job_id) == job_id

\* cur.update(patch) on JSON objects
Update(cur, patch) ==
    [k \in DOMAIN cur \cup DOMAIN patch |-> IF k \in DOMAIN patch THEN patch[k] ELSE cur[k]]

\* index.json: absent, unreadable, or a list of job ids
NoIndex == [exists |-> FALSE, ok |-> FALSE, ids |-> <<>>]
CorruptIndex == [exists |-> TRUE, ok |-> FALSE, ids |-> <<>>]
IndexFile(ids) == [exists |-> TRUE, ok |-> TRUE, ids |-> ids]

\* train_job_store.py:58-62
_load_index(index) ==
    IF index.exists /\ index.ok THEN SelectSeq(index.ids, LAMBDA x : x # "") ELSE <<>>

RECURSIVE SaveIndexLoop(_, _)
\* train_job_store.py:66-75
SaveIndexLoop(ids, seen) ==
    IF ids = <<>> THEN <<>>
    ELSE IF Head(ids) = "" \/ Head(ids) \in seen THEN SaveIndexLoop(Tail(ids), seen)
    ELSE <<Head(ids)>> \o SaveIndexLoop(Tail(ids), seen \cup {Head(ids)})

\* train_job_store.py:65-76
_save_index(ids) == IndexFile(SaveIndexLoop(ids, {}))

\* train_job_store.py:79-81
_touch_index(index, job_id) == _save_index(<<job_id>> \o _load_index(index))

\* train_job_store.py:49-55 with the isinstance test of its callers: the JSON
\* object of a job file, {} standing for a file that is absent or holds no
\* object
LoadJob(l, job_id) ==
    IF job_id \in DOMAIN l.files /\ "not_a_dict" \notin DOMAIN l.files[job_id]
    THEN l.files[job_id] ELSE <<>>

\* A mutant: created_at_ns is stamped by every write.
CreatedNow(cur, now) == now

\* train_job_store.py:174-175
CreatedAt(cur, now) == IF "created_at_ns" \in DOMAIN cur THEN cur.created_at_ns ELSE now

\* train_job_store.py:168-181: the record set_job writes over cur
Stamped(cur, job_id, patch, boot, pid, now) ==
    Update(Update(Update(cur,
                [job_id |-> IF "job_id" \in DOMAIN cur THEN cur.job_id ELSE job_id,
                 created_at_ns |-> CreatedAt(cur, now),
                 boot_id |-> boot, worker_pid |-> pid]),
           patch),
        [updated_at_ns |-> now])

\* The ledger of a process that has written nothing
EmptyLedger(impl) ==
    [t |-> "ledger", impl |-> impl, files |-> <<>>, mtime |-> <<>>, index |-> NoIndex,
     log |-> <<>>, JOBS_LOCK |-> 0, clock |-> 1, SERVER_BOOT_ID |-> 1, pid |-> 1,
     first |-> <<>>, order |-> <<>>]

\* train_job_store.py:167-183: the job file is written
WriteJob(l, job_id, patch) ==
    LET now == l.clock + 1
    IN  [l EXCEPT !.clock = now,
                  !.files = Put(@, job_id, Stamped(LoadJob(l, job_id), job_id, patch,
                                                   l.SERVER_BOOT_ID, l.pid, now)),
                  !.mtime = Put(@, job_id, now),
                  !.first = IF job_id \in DOMAIN @ THEN @ ELSE Put(@, job_id, now),
                  !.order = <<job_id>> \o SelectSeq(@, LAMBDA x : x # job_id)]

\* train_job_store.py:151-184, for a caller that is not interrupted
set_job(l, job_id, patch) ==
    IF job_id = "" THEN l
    ELSE Bind(WriteJob(l, job_id, patch), LAMBDA l1 :
         [l1 EXCEPT !.index = _touch_index(l1.index, job_id)])

\* The patches of routes.py:1144-1170, 1261, 1283, 1449-1458 and 1464
Queued(job_id) ==
    [job_id |-> job_id, status |-> "queued", progress |-> 0,
     log_path |-> LogPathOf(job_id), dataset_total |-> 0]
PatchRunning == [status |-> "running", progress |-> 5]
PatchDatasetTotal == [dataset_total |-> 2]
PatchDone == [status |-> "done", progress |-> 100]
PatchError == [status |-> "error", progress |-> 0]

\* A process that was started after another process had queued train_1
RestartedLedger(impl) ==
    [set_job(EmptyLedger(impl), "train_1", Queued("train_1")) EXCEPT
        !.SERVER_BOOT_ID = 2, !.pid = 2, !.clock = JOB_STALE_SEC + 10]

JobPatches(job_id) == {Queued(job_id), PatchRunning, PatchDatasetTotal, PatchDone}

IdleThread == [pc |-> "idle"]

InitLedger ==
    /\ StoreIdle
    /\ rd = NoRead
    /\ classesFile = Missing
    /\ sessionFile = Missing
    /\ uploads = {}
    /\ ret = NoRet
    /\ nops = 0
    /\ th = [t \in Threads |-> IdleThread]
    /\ sessionFile2 = Missing
    /\ blobs = <<>>
    /\ accum = [t |-> "none"]
    /\ arch = {}
    /\ gds = [t |-> "none"]
    /\ gb = [pc |-> "idle"]
    /\ mm = [t |-> "none"]
    /\ tj \in {EmptyLedger("backend"), RestartedLedger("backend")}

LedgerFrame ==
    UNCHANGED <<storeVars, rd, classesFile, sessionFile, uploads,
                sessionFile2, blobs, accum, arch, gds, gb, mm>>

\* train_job_store.py:161-164
SetJobCall(t, job_id, patch) ==
    /\ th[t].pc = "idle"
    /\ nops < MaxJobOps
    /\ nops' = nops + 1
    /\ th' = [th EXCEPT ![t] = [pc |-> "lock", job_id |-> job_id, patch |-> patch]]
    /\ UNCHANGED <<tj, ret>>
    /\ LedgerFrame

\* A mutant: set_job does not wait for the lock.
LockIgnored(lock) == TRUE

\* threading.Lock: free
LockFree(lock) == lock = 0

\* train_job_store.py:166
SetJobLock(t) ==
    /\ th[t].pc = "lock"
    /\ LockFree(tj.JOBS_LOCK)
    /\ tj' = [tj EXCEPT !.JOBS_LOCK = t]
    /\ th' = [th EXCEPT ![t].pc = "write"]
    /\ UNCHANGED <<ret, nops>>
    /\ LedgerFrame

\* train_job_store.py:167-183
SetJobWrite(t) ==
    /\ th[t].pc = "write"
    /\ tj' = WriteJob(tj, th[t].job_id, th[t].patch)
    /\ ret' = [op |-> "set_job", job_id |-> th[t].job_id, patch |-> th[t].patch,
               before |-> LoadJob(tj, th[t].job_id), now |-> tj.clock + 1]
    /\ th' = [th EXCEPT ![t].pc = "load_index"]
    /\ UNCHANGED nops
    /\ LedgerFrame

\* train_job_store.py:80
SetJobLoadIndex(t) ==
    /\ th[t].pc = "load_index"
    /\ th' = [th EXCEPT ![t] = [pc |-> "save_index", job_id |-> th[t].job_id,
                                patch |-> th[t].patch, idx |-> _load_index(tj.index)]]
    /\ UNCHANGED <<tj, ret, nops>>
    /\ LedgerFrame

\* train_job_store.py:81
SetJobSaveIndex(t) ==
    /\ th[t].pc = "save_index"
    /\ tj' = [tj EXCEPT !.index = _save_index(<<th[t].job_id>> \o th[t].idx)]
    /\ th' = [th EXCEPT ![t].pc = "unlock"]
    /\ UNCHANGED <<ret, nops>>
    /\ LedgerFrame

\* train_job_store.py:166-184: the end of the with block
SetJobUnlock(t) ==
    /\ th[t].pc = "unlock"
    /\ tj' = [tj EXCEPT !.JOBS_LOCK = IF @ = t THEN 0 ELSE @]
    /\ th' = [th EXCEPT ![t] = IdleThread]
    /\ UNCHANGED <<ret, nops>>
    /\ LedgerFrame

NextLedger ==
    \E t \in Threads :
        \/ \E job_id \in JobIds : \E patch \in JobPatches(job_id) :
              SetJobCall(t, job_id, patch)
        \/ SetJobLock(t) \/ SetJobWrite(t) \/ SetJobLoadIndex(t)
        \/ SetJobSaveIndex(t) \/ SetJobUnlock(t)

SpecLedger == InitLedger /\ [][NextLedger]_vars

StampKeys == {"job_id", "created_at_ns", "updated_at_ns", "boot_id", "worker_pid"}

\* C22: after a set_job the stored record is the previous record overridden
\* by the patch (created if absent); its created_at_ns is the time of the
\* first write of the job id, its updated_at_ns the time of this write, and
\* its boot_id and worker_pid are those of the writing process.
C22_SetJobMergesAndStamps ==
    ret.op = "set_job" =>
        LET r == tj.files[ret.job_id]
            before == ret.before
        IN  /\ DOMAIN r = DOMAIN before \cup DOMAIN ret.patch \cup StampKeys
            /\ \A k \in DOMAIN ret.patch : r[k] = ret.patch[k]
            /\ \A k \in DOMAIN before \ (DOMAIN ret.patch \cup StampKeys) : r[k] = before[k]
            /\ r.job_id = ret.job_id
            /\ r.created_at_ns = tj.first[ret.job_id]
            /\ "created_at_ns" \in DOMAIN before => r.created_at_ns = before.created_at_ns
            /\ r.updated_at_ns = ret.now
            /\ r.boot_id = tj.SERVER_BOOT_ID
            /\ r.worker_pid = tj.pid

\* A record that another process created is patched by this one.
C22_Witness ==
    /\ ret.op = "set_job"
    /\ "boot_id" \in DOMAIN ret.before
    /\ ret.before.boot_id # tj.SERVER_BOOT_ID
    /\ "status" \in DOMAIN ret.patch
    /\ ret.before.status # ret.patch.status
    /\ tj.files[ret.job_id].created_at_ns < tj.files[ret.job_id].updated_at_ns
    /\ tj.files[ret.job_id].dataset_total = 0

Quiescent == \A t \in Threads : th[t].pc = "idle"

\* C30: after any sequence of set_job calls, from one or several threads, the
\* index holds each job id at most once and lists the job ids in the order
\* of their most recent write, the most recently written first.
C30_IndexIsWriteOrder ==
    (tj.t = "ledger" /\ Quiescent) =>
        /\ tj.index.exists /\ tj.index.ok => 
              \A i, j \in DOMAIN tj.index.ids : tj.index.ids[i] = tj.index.ids[j] => i = j
        /\ _load_index(tj.index) = tj.order

\* Both threads have written, and a job written earlier is behind a later one.
C30_Witness ==
    /\ Quiescent
    /\ Len(tj.order) = 2
    /\ tj.index.ids = tj.order
    /\ tj.files[tj.order[1]].updated_at_ns > tj.files[tj.order[2]].updated_at_ns
    /\ tj.files[tj.order[2]].updated_at_ns > tj.files[tj.order[2]].created_at_ns
    /\ nops = MaxJobOps

-----------------------------------------------------------------------------
(* Reading the ledger: get_job with its staleness test, and list_jobs.  The *)
(* two variants of train_job_store.py differ in _maybe_mark_lost; tj.impl   *)
(* says which one the process runs.                                          *)

\* train_job_store.py:116-125 (backend), 103-110 (app): the log file of the
\* job exists and was written within the window.  Every record routes.py
\* creates carries a log_path.
LogFresh(l, job) ==
    LET raw_log == IF "log_path" \in DOMAIN job THEN job.log_path ELSE ""
    IN  /\ raw_log # ""
        /\ raw_log \in DOMAIN l.log
        /\ l.clock - l.log[raw_log] <= JOB_STALE_SEC

\* train_job_store.py:84-94 and 128 (backend only)
RecordFresh(l, job) ==
    LET last_ns == IF "updated_at_ns" \in DOMAIN job /\ job.updated_at_ns # 0
                   THEN job.updated_at_ns
                   ELSE IF "created_at_ns" \in DOMAIN job THEN job.created_at_ns ELSE 0
    IN  last_ns > 0 /\ l.clock - last_ns <= JOB_STALE_SEC

\* The early returns of _maybe_mark_lost: backend 106-129, app 96-110
Tracked(l, job) ==
    \/ "status" \notin DOMAIN job
    \/ job.status \notin {"queued", "running"}
    \/ ("boot_id" \in DOMAIN job /\ job.boot_id = l.SERVER_BOOT_ID)
    \/ LogFresh(l, job)
    \/ (l.impl = "backend" /\ RecordFresh(l, job))

\* backend 132-140, app 113-119
MarkedRecord(l, job, now) ==
    IF l.impl = "backend"
    THEN Update(job, [status |-> "error", lost |-> TRUE, error_code |-> "lost_after_restart",
                      message |-> "lost", updated_at_ns |-> now])
    ELSE Update(job, [status |-> "lost", message |-> "lost", updated_at_ns |-> now])

\* train_job_store.py:97-148 (backend), 90-125 (app)
_maybe_mark_lost(l, job) ==
    IF Tracked(l, job) THEN [l |-> l, out |-> job, wrote |-> FALSE]
    ELSE Bind(MarkedRecord(l, job, l.clock + 1), LAMBDA rec :
         [l |-> [l EXCEPT !.clock = l.clock + 1,
                          !.files = Put(@, job.job_id, rec),
                          !.mtime = Put(@, job.job_id, l.clock + 1)],
          out |-> rec, wrote |-> TRUE])

\* train_job_store.py:187-198
get_job(l, job_id) ==
    IF job_id = "" \/ DOMAIN LoadJob(l, job_id) = {}
    THEN [l |-> l, out |-> <<>>, wrote |-> FALSE]
    ELSE _maybe_mark_lost(l, LoadJob(l, job_id))

\* int(x.get("updated_at_ns") or 0), train_job_store.py:226
UpdatedAt(job) == IF "updated_at_ns" \in DOMAIN job THEN job.updated_at_ns ELSE 0

RECURSIVE InsertJob(_, _)
\* Insertion behind the records that are not older
InsertJob(x, s) ==
    IF s = <<>> THEN <<x>>
    ELSE IF UpdatedAt(Head(s)) >= UpdatedAt(x) THEN <<Head(s)>> \o InsertJob(x, Tail(s))
    ELSE <<x>> \o s

RECURSIVE SortedJobs(_)
\* train_job_store.py:225-228: jobs.sort(key=updated_at_ns, reverse=True), stable
SortedJobs(s) ==
    IF s = <<>> THEN <<>> ELSE InsertJob(Head(s), SortedJobs(Tail(s)))

RECURSIVE NewestFirst(_, _)
\* sorted(files, key=st_mtime, reverse=True)
NewestFirst(S, mtime) ==
    IF S = {} THEN <<>>
    ELSE Bind(CHOOSE x \in S : \A y \in S : mtime[y] <= mtime[x], LAMBDA x :
         <<x>> \o NewestFirst(S \ {x}, mtime))

\* train_job_store.py:209-218: the job files by modification time, newest first
ScanJobs(l) == NewestFirst(DOMAIN l.files, l.mtime)

RECURSIVE ListLoop(_, _, _)
\* train_job_store.py:220-223
ListLoop(l, ids, jobs) ==
    IF ids = <<>> THEN [l |-> l, jobs |-> jobs]
    ELSE Bind(get_job(l, Head(ids)), LAMBDA g :
         ListLoop(g.l, Tail(ids), IF DOMAIN g.out # {} THEN Append(jobs, g.out) ELSE jobs))

\* train_job_store.py:201-230
list_jobs(l, limit0) ==
    LET limit == IF limit0 = 0 THEN 50 ELSE IF limit0 < 1 THEN 1 ELSE limit0
        idx0 == _load_index(l.index)
        idx == IF idx0 = <<>> THEN ScanJobs(l) ELSE idx0
    IN  Bind(ListLoop(l, SubSeq(idx, 1, IF Len(idx) < limit THEN Len(idx) ELSE limit), <<>>),
             LAMBDA r : [l |-> r.l, out |-> SortedJobs(r.jobs)])

\* The status of a job that no run will change any more
Terminal(job) == "status" \in DOMAIN job /\ job.status \notin {"queued", "running"}

\* A terminal failed status with a marker that tells a lost job from a failed run
MarkedLost(job) ==
    /\ Terminal(job)
    /\ job.status # "done"
    /\ ("lost" \in DOMAIN job /\ job.lost = TRUE) \/ job.status = "lost"

MaxReadOps == 4    \* operations on the ledger per behaviour

Impls == {"backend", "app"}

InitRead ==
    /\ StoreIdle
    /\ rd = NoRead
    /\ classesFile = Missing
    /\ sessionFile = Missing
    /\ uploads = {}
    /\ ret = NoRet
    /\ nops = 0
    /\ th = [t \in Threads |-> IdleThread]
    /\ sessionFile2 = Missing
    /\ blobs = <<>>
    /\ accum = [t |-> "none"]
    /\ arch = {}
    /\ gds = [t |-> "none"]
    /\ gb = [pc |-> "idle"]
    /\ mm = [t |-> "none"]
    /\ \E impl \in Impls : tj \in {EmptyLedger(impl), RestartedLedger(impl)}

ReadStep == nops < MaxReadOps /\ nops' = nops + 1 /\ UNCHANGED th /\ LedgerFrame

\* routes.py:1144-1170 for a new job, the later set_job calls of its run for
\* a job that exists
SetJob(job_id, patch) ==
    /\ ReadStep
    /\ patch = Queued(job_id) \/ job_id \in DOMAIN tj.files
    /\ tj' = set_job(tj, job_id, patch)
    /\ ret' = [op |-> "set_job", job_id |-> job_id, patch |-> patch,
               before |-> LoadJob(tj, job_id), now |-> tj.clock + 1]

\* routes.py:1472-1489 and 902-909
GetJob(job_id) ==
    /\ ReadStep
    /\ \E g \in {get_job(tj, job_id)} :
          /\ tj' = g.l
          /\ ret' = [op |-> "get_job", job_id |-> job_id, before |-> LoadJob(tj, job_id),
                     out |-> g.out, wrote |-> g.wrote, now |-> tj.clock,
                     boot |-> tj.SERVER_BOOT_ID, log |-> tj.log, impl |-> tj.impl,
                     stored |-> LoadJob(g.l, job_id),
                     again |-> ret.op = "get_job" /\ ret.job_id = job_id]

\* routes.py:896-900
ListJobs(limit) ==
    /\ ReadStep
    /\ \E r \in {list_jobs(tj, limit)} :
          /\ tj' = r.l
          /\ ret' = [op |-> "list_jobs", limit |-> limit, out |-> r.out,
                     index |-> tj.index, impl |-> tj.impl, files |-> r.l.files,
                     marked |-> \E j \in DOMAIN tj.files : MarkedLost(tj.files[j])]

\* routes.py:1172-1174: the run of a job appends a line to its log
TouchLog(job_id) ==
    /\ ReadStep
    /\ job_id \in DOMAIN tj.files
    /\ tj.files[job_id].status = "running"
    /\ tj' = [tj EXCEPT !.log = Put(@, LogPathOf(job_id), tj.clock)]
    /\ UNCHANGED ret

\* train_job_store.py:19: the process is started again
Restart ==
    /\ ReadStep
    /\ tj' = [tj EXCEPT !.SERVER_BOOT_ID = @ + 1, !.pid = @ + 1, !.JOBS_LOCK = 0]
    /\ UNCHANGED ret

\* Time passes: less than the window, or more
Wait(sec) ==
    /\ ReadStep
    /\ tj' = [tj EXCEPT !.clock = @ + sec]
    /\ UNCHANGED ret

\* The index file is removed or damaged from outside
DamageIndex(index) ==
    /\ ReadStep
    /\ tj.index.exists /\ tj.index.ok
    /\ tj' = [tj EXCEPT !.index = index]
    /\ UNCHANGED ret

ReadPatches(job_id) == {Queued(job_id), PatchRunning, PatchDone}

NextRead ==
    \/ \E job_id \in JobIds : \E patch \in ReadPatches(job_id) : SetJob(job_id, patch)
    \/ \E job_id \in JobIds : GetJob(job_id)
    \/ \E limit \in {1, 2} : ListJobs(limit)
    \/ \E job_id \in JobIds : TouchLog(job_id)
    \/ Restart
    \/ \E sec \in {JOB_STALE_SEC \div 2, JOB_STALE_SEC + 1} : Wait(sec)
    \/ \E index \in {NoIndex, CorruptIndex} : DamageIndex(index)

SpecRead == InitRead /\ [][NextRead]_vars

\* Neither the log file nor the record was touched within the window before now
Untouched(log, job, now) ==
    /\ ~("log_path" \in DOMAIN job /\ job.log_path \in DOMAIN log
          /\ now - log[job.log_path] <= JOB_STALE_SEC)
    /\ now - job.updated_at_ns > JOB_STALE_SEC

\* The record is one that get_job is to mark
Orphaned(boot, log, job, now) ==
    /\ job.status \in {"queued", "running"}
    /\ job.boot_id # boot
    /\ Untouched(log, job, now)

GetJobMarksOrKeeps ==
    (ret.op = "get_job" /\ DOMAIN ret.before # {}) =>
        IF Orphaned(ret.boot, ret.log, ret.before, ret.now)
        THEN /\ MarkedLost(ret.out)
             /\ ret.wrote
             /\ ret.stored = ret.out
             /\ \A k \in DOMAIN ret.before \ {"status", "message", "updated_at_ns"} :
                   ret.out[k] = ret.before[k]
        ELSE /\ ret.out = ret.before
             /\ ~ret.wrote
             /\ ret.stored = ret.before

\* C23: get_job returns and persists an orphaned record (queued or running,
\* foreign boot id, neither log file nor record touched within the window)
\* with a terminal failed status and a lost marker, and later reads return
\* it without writing again; any other record is returned unchanged and is
\* not rewritten.
C23_GetJobMarksOrKeeps == GetJobMarksOrKeeps

\* The same for a process that runs the backend variant of the ledger
C23_BackendVariant == (ret.op = "get_job" /\ ret.impl = "backend") => GetJobMarksOrKeeps

\* An orphaned record was marked by one read and returned as it is by the next.
C23_MarkedOnce ==
    /\ ret.op = "get_job"
    /\ ret.again
    /\ MarkedLost(ret.before)
    /\ ret.out = ret.before
    /\ ~ret.wrote

\* A record of another process, touched within the window, was read.
C23_ReadWithinWindow ==
    /\ ret.op = "get_job"
    /\ DOMAIN ret.before # {}
    /\ ret.before.status \in {"queued", "running"}
    /\ ret.before.boot_id # ret.boot
    /\ ret.now - ret.before.updated_at_ns <= JOB_STALE_SEC

\* The records of the job files that fewer than limit records are newer than
MostRecentlyUpdated(files, limit) ==
    {files[j] : j \in {j \in DOMAIN files :
        Cardinality({k \in DOMAIN files :
            files[k].updated_at_ns > files[j].updated_at_ns}) < limit}}

ListIsNewestFirst ==
    ret.op = "list_jobs" =>
        /\ Len(ret.out) <= ret.limit
        /\ \A i, j \in DOMAIN ret.out :
              i < j => ret.out[i].updated_at_ns >= ret.out[j].updated_at_ns
        /\ {ret.out[i] : i \in DOMAIN ret.out} = MostRecentlyUpdated(ret.files, ret.limit)

\* C25: list_jobs(limit) returns at most limit records, the most recently
\* updated ones of the ledger, newest first by update time; with a missing
\* or corrupt index it returns the jobs found in the job directory under the
\* same bound and order.
C25_ListIsNewestFirst == (ret.op = "list_jobs" /\ ret.impl = "backend") => ListIsNewestFirst

\* The same for the listings made while no record had been marked lost and
\* the index was missing, corrupt, or held every job
C25_AfterSetJobsOnly ==
    (/\ ret.op = "list_jobs"
     /\ ~ret.marked
     /\ (ret.index.exists /\ ret.index.ok) =>
            Len(ret.index.ids) = Cardinality(DOMAIN ret.files))
    => ListIsNewestFirst

\* The listing was cut to the limit, and one made without an index file
C25_ListedByScan ==
    /\ ret.op = "list_jobs"
    /\ ~ret.index.exists
    /\ Len(ret.out) = 1
    /\ Cardinality(DOMAIN ret.files) = 2

-----------------------------------------------------------------------------
(* A train request and its run, routes.py:1125-1467, on the backend ledger. *)
(* th holds the run thread, the monitor thread, done_evt, the epochs in     *)
(* results.csv and whether the log file can be written.                      *)

MaxEpochs == 1      \* settings.TRAIN_EPOCHS
MaxBoots == 2       \* processes, one after the other

\* The job ids of the train requests
TrainJobs == {"train_1"}

NoThread == [pc |-> "none"]

NoRun == [run |-> NoThread, mon |-> NoThread, done_evt |-> FALSE, epochs |-> 0,
          log_ok |-> TRUE]

InitTrain ==
    /\ StoreIdle
    /\ rd = NoRead
    /\ classesFile = Missing
    /\ sessionFile = Missing
    /\ uploads = {}
    /\ ret = NoRet
    /\ nops = 0
    /\ th = NoRun
    /\ sessionFile2 = Missing
    /\ blobs = <<>>
    /\ accum = [t |-> "none"]
    /\ arch = {}
    /\ gds = [t |-> "none"]
    /\ gb = [pc |-> "idle"]
    /\ mm = [t |-> "none"]
    /\ tj = EmptyLedger("backend")

TrainFrame == UNCHANGED <<ret, nops>> /\ LedgerFrame

\* routes.py:1172-1174
_write_log(l, job_id) == [l EXCEPT !.log = Put(@, LogPathOf(job_id), l.clock)]

\* routes.py:1125-1170 and 1466-1467: the record is queued and the thread started
Train(job_id) ==
    /\ th.run.pc \in {"none", "end", "dead"}
    /\ th.mon.pc \in {"none", "end"}
    /\ job_id \notin DOMAIN tj.files
    /\ tj' = set_job(tj, job_id, Queued(job_id))
    /\ th' = [th EXCEPT !.run = [pc |-> "start", job_id |-> job_id, callbacks_ok |-> TRUE],
                        !.mon = NoThread, !.done_evt = FALSE, !.epochs = 0]
    /\ TrainFrame

\* routes.py:1261 and 1299
RunSetRunning ==
    /\ th.run.pc = "start"
    /\ tj' = set_job(tj, th.run.job_id, PatchRunning)
    /\ th' = [th EXCEPT !.run.pc = "build"]
    /\ TrainFrame

\* routes.py:1262-1301: the dataset build returns, is refused (ValueError of
\* the global build, or a dataset without boxes), or raises
RunBuild(outcome) ==
    /\ th.run.pc = "build"
    /\ th' = [th EXCEPT !.run.pc = CASE outcome = "ok" -> "dataset_log"
                                     [] outcome = "refused" -> "refused_log"
                                     [] OTHER -> "except"]
    /\ UNCHANGED tj
    /\ TrainFrame

\* routes.py:1266-1268, 1294-1296 and 1324-1326: _write_log, set_job(error), return
RunRefused ==
    /\ th.run.pc = "refused_log"
    /\ IF th.log_ok
       THEN /\ tj' = set_job(_write_log(tj, th.run.job_id), th.run.job_id, PatchError)
            /\ th' = [th EXCEPT !.run.pc = "end"]
       ELSE /\ th' = [th EXCEPT !.run.pc = "except"]
            /\ UNCHANGED tj
    /\ TrainFrame

\* routes.py:1270-1283 and 1302-1312: the log lines of the dataset and
\* set_job(dataset_total)
RunDatasetLog ==
    /\ th.run.pc = "dataset_log"
    /\ IF th.log_ok
       THEN /\ tj' = set_job(_write_log(tj, th.run.job_id), th.run.job_id, PatchDatasetTotal)
            /\ th' = [th EXCEPT !.run.pc = "model"]
       ELSE /\ th' = [th EXCEPT !.run.pc = "except"]
            /\ UNCHANGED tj
    /\ TrainFrame

\* routes.py:1329-1392: model and device are resolved, the callbacks are
\* registered or, if they cannot be, the monitor thread is started
RunStartTraining(callbacks_ok, raised) ==
    /\ th.run.pc = "model"
    /\ IF raised \/ ~th.log_ok
       THEN /\ th' = [th EXCEPT !.run.pc = "except"]
            /\ UNCHANGED tj
       ELSE /\ tj' = _write_log(tj, th.run.job_id)
            /\ th' = [th EXCEPT !.run.pc = "training", !.run.callbacks_ok = callbacks_ok,
                                !.mon = IF callbacks_ok THEN NoThread
                                        ELSE [pc |-> "check", last_epoch |-> 0 - 1]]
    /\ TrainFrame

\* routes.py:1410 with 1201-1256: model.train ends an epoch; results.csv
\* gets a row, and the registered callback writes the progress
RunEpoch ==
    /\ th.run.pc = "training"
    /\ th.epochs < MaxEpochs
    /\ th' = [th EXCEPT !.epochs = @ + 1]
    /\ tj' = IF th.run.callbacks_ok THEN set_job(tj, th.run.job_id, PatchRunning) ELSE tj
    /\ TrainFrame

\* routes.py:1410: model.train returns or raises
RunTrainEnds(raised) ==
    /\ th.run.pc = "training"
    /\ raised \/ th.epochs = MaxEpochs
    /\ th' = [th EXCEPT !.run.pc = IF raised THEN "except" ELSE "copy"]
    /\ UNCHANGED tj
    /\ TrainFrame

\* routes.py:1412-1446: the weights are copied, the cache invalidated, the
\* version saved, each with its log line and set_job
RunCopy(raised) ==
    /\ th.run.pc = "copy"
    /\ IF raised \/ ~th.log_ok
       THEN /\ th' = [th EXCEPT !.run.pc = "except"]
            /\ UNCHANGED tj
       ELSE /\ tj' = set_job(_write_log(tj, th.run.job_id), th.run.job_id,
                             [model_path |-> "best.pt"])
            /\ th' = [th EXCEPT !.run.pc = "finish"]
    /\ TrainFrame

\* routes.py:1448
RunSetDoneEvt ==
    /\ th.run.pc = "finish"
    /\ th' = [th EXCEPT !.run.pc = "set_done", !.done_evt = TRUE]
    /\ UNCHANGED tj
    /\ TrainFrame

\* routes.py:1449-1458
RunSetDone ==
    /\ th.run.pc = "set_done"
    /\ tj' = set_job(tj, th.run.job_id, PatchDone)
    /\ th' = [th EXCEPT !.run.pc = "end"]
    /\ TrainFrame

\* routes.py:1460-1461
RunExcept ==
    /\ th.run.pc = "except"
    /\ th' = [th EXCEPT !.run.pc = "except_log", !.done_evt = TRUE]
    /\ UNCHANGED tj
    /\ TrainFrame

\* routes.py:1462-1463: the two log lines of the handler; an exception they
\* raise ends the thread
RunExceptLog ==
    /\ th.run.pc = "except_log"
    /\ IF th.log_ok
       THEN /\ tj' = _write_log(tj, th.run.job_id)
            /\ th' = [th EXCEPT !.run.pc = "except_set"]
       ELSE /\ th' = [th EXCEPT !.run.pc = "dead"]
            /\ UNCHANGED tj
    /\ TrainFrame

\* routes.py:1464
RunExceptSet ==
    /\ th.run.pc = "except_set"
    /\ tj' = set_job(tj, th.run.job_id, PatchError)
    /\ th' = [th EXCEPT !.run.pc = "end"]
    /\ TrainFrame

\* routes.py:1182-1185: the monitor tests done_evt and counts the epochs
MonCheck ==
    /\ th.mon.pc = "check"
    /\ th' = [th EXCEPT !.mon = IF th.done_evt THEN [pc |-> "end", last_epoch |-> @.last_epoch]
                                ELSE IF th.epochs # @.last_epoch
                                THEN [pc |-> "set_job", last_epoch |-> th.epochs]
                                ELSE @]
    /\ UNCHANGED tj
    /\ TrainFrame

\* routes.py:1189-1199
MonSetJob ==
    /\ th.mon.pc = "set_job"
    /\ tj' = set_job(tj, th.run.job_id, PatchRunning)
    /\ th' = [th EXCEPT !.mon.pc = "check"]
    /\ TrainFrame

\* The log file can no longer be opened for appending
BreakLog ==
    /\ th.log_ok
    /\ th.run.pc \notin {"none", "end", "dead"}
    /\ th' = [th EXCEPT !.log_ok = FALSE]
    /\ UNCHANGED tj
    /\ TrainFrame

\* The process is started again: its threads are gone
RestartProcess ==
    /\ tj.SERVER_BOOT_ID < MaxBoots
    /\ tj' = [tj EXCEPT !.SERVER_BOOT_ID = @ + 1, !.pid = @ + 1, !.JOBS_LOCK = 0]
    /\ th' = NoRun
    /\ TrainFrame

\* routes.py:1472-1489: a client asks for the status of a job
Poll(job_id) ==
    /\ job_id \in DOMAIN tj.files
    /\ tj' = get_job(tj, job_id).l
    /\ UNCHANGED th
    /\ TrainFrame

\* Time passes until the record and the log of a job of an earlier process
\* are older than the window
WindowPasses ==
    /\ \E j \in DOMAIN tj.files :
          /\ ~Terminal(tj.files[j])
          /\ tj.files[j].boot_id # tj.SERVER_BOOT_ID
          /\ Tracked(tj, tj.files[j])
    /\ tj' = [tj EXCEPT !.clock = @ + JOB_STALE_SEC + 1]
    /\ UNCHANGED th
    /\ TrainFrame

RunSteps ==
    \/ RunSetRunning
    \/ \E outcome \in {"ok", "refused", "raised"} : RunBuild(outcome)
    \/ RunRefused
    \/ RunDatasetLog
    \/ \E callbacks_ok, raised \in BOOLEAN : RunStartTraining(callbacks_ok, raised)
    \/ RunEpoch
    \/ \E raised \in BOOLEAN : RunTrainEnds(raised)
    \/ \E raised \in BOOLEAN : RunCopy(raised)
    \/ RunSetDoneEvt
    \/ RunSetDone
    \/ RunExcept
    \/ RunExceptLog
    \/ RunExceptSet

MonSteps == MonCheck \/ MonSetJob

NextTrain ==
    \/ \E job_id \in TrainJobs : Train(job_id)
    \/ RunSteps
    \/ MonSteps
    \/ BreakLog
    \/ RestartProcess
    \/ \E job_id \in TrainJobs : Poll(job_id)
    \/ WindowPasses

\* The threads of the process run, clients keep asking for the status of
\* every job, and time passes
TrainFairness ==
    /\ WF_vars(RunSteps)
    /\ WF_vars(MonSteps)
    /\ \A job_id \in TrainJobs : WF_vars(Poll(job_id))
    /\ WF_vars(WindowPasses)

SpecTrain == InitTrain /\ [][NextTrain]_vars /\ TrainFairness

AllJobsTerminal == \A j \in DOMAIN tj.files : Terminal(tj.files[j])

\* C24: every job a train request created eventually has a terminal status
\* in the ledger and keeps it: the run ends by writing done or error
\* whatever step fails, or after a restart a read after the staleness
\* window marks it failed; no job stays queued or running forever.
C24_EveryJobEnds == <>[]AllJobsTerminal

\* The same for the runs whose log file stays writable and whose progress
\* comes from the registered callbacks, without a monitor thread
C24_WithCallbacksAndLog == <>[](AllJobsTerminal \/ ~th.log_ok \/ th.mon.pc # "none")

\* A run has ended, its thread is gone, and its job is still running.
C24_LeftRunning ==
    /\ th.run.pc \in {"end", "dead"}
    /\ th.mon.pc \in {"none", "end"}
    /\ tj.files[th.run.job_id].status = "running"
    /\ tj.files[th.run.job_id].boot_id = tj.SERVER_BOOT_ID

\* A job of an earlier process was marked lost by a read after the window.
C24_MarkedAfterRestart ==
    \E j \in DOMAIN tj.files : MarkedLost(tj.files[j]) /\ tj.clock > JOB_STALE_SEC

-----------------------------------------------------------------------------
(* Train requests whose runs build the accumulated corpus at the same time, *)
(* routes.py:1125-1171, 1299-1312 and 1466-1467.  A build is taken in two   *)
(* steps: the read of the manifest (dataset_builder.py:455-463), and the    *)
(* loop over the photos with the writes of manifest and data.yaml           *)
(* (465-587).  The sessions hold boxes of snapshot classes only, so that a  *)
(* build changes neither the registry nor a session file.                   *)

BuildS1 ==
    {SessionDoc("s1", 1, DEFECT_CLASSES_RU, ps) :
        ps \in {<<LabelledPhoto("p1", "defect", <<vInside>>)>>,
                <<LabelledPhoto("p1", "defect", <<vInside>>),
                  LabelledPhoto("p2", "defect", <<vInside>>)>>,
                <<LabelledPhoto("p1", "ok", <<>>),
                  LabelledPhoto("p2", "defect", <<vInside>>)>>}}

BuildS2 ==
    {SessionDoc("s2", 1, DEFECT_CLASSES_RU, <<LabelledPhoto("p1", "defect", <<vInside>>)>>)}

\* The job id of the request that thread t serves: routes.py:1138
JobOf(t) == IF t = 1 THEN "train_1" ELSE "train_2"

InitBuilds ==
    /\ StoreIdle
    /\ rd = NoRead
    /\ classesFile = FullFile(RegistryDoc(DEFECT_CLASSES_RU))
    /\ sessionFile \in {FullFile(d) : d \in BuildS1}
    /\ sessionFile2 \in {FullFile(d) : d \in BuildS2}
    /\ blobs = GlobalUploads("h2", "h3")
    /\ uploads = {StoredName("p1"), StoredName("p2")}
    /\ ret = NoRet
    /\ th = [t \in Threads |-> IdleThread]
    /\ nops = 0
    /\ accum = [t |-> "none"]
    /\ arch = {}
    /\ gds = [t |-> "none"]
    /\ gb = [pc |-> "idle"]
    /\ mm = [t |-> "none"]
    /\ tj = EmptyLedger("backend")

BuildsFrame == UNCHANGED <<storeVars, rd, uploads, blobs, arch, gds, gb, mm>>

\* routes.py:1125-1170 and 1466-1467: the session is validated, the job
\* queued and the thread of the run started
TrainRequest(t, session_id) ==
    /\ th[t].pc = "idle"
    /\ \E V \in {validate_session_for_training(classesFile, SessionFiles[session_id],
                                               session_id, uploads, Now)} :
          /\ V.ok
          /\ classesFile' = V.cf
          /\ sessionFile' = IF session_id = "s1" THEN V.sf ELSE sessionFile
          /\ sessionFile2' = IF session_id = "s2" THEN V.sf ELSE sessionFile2
    /\ tj' = set_job(tj, JobOf(t), Queued(JobOf(t)))
    /\ th' = [th EXCEPT ![t] = [pc |-> "start", session_id |-> session_id]]
    /\ UNCHANGED <<accum, ret, nops>>
    /\ BuildsFrame

\* routes.py:1299 and dataset_builder.py:441-463: set_job(running), the
\* directories, and the manifest is read; nothing keeps a run from building
\* while another run builds
BuildBegin(t) ==
    /\ th[t].pc = "start"
    /\ tj' = set_job(tj, JobOf(t), PatchRunning)
    /\ accum' = _ensure_yolo_skeleton(accum)
    /\ th' = [th EXCEPT ![t] = [pc |-> "loop", session_id |-> th[t].session_id,
                                man |-> _ensure_yolo_skeleton(accum).man]]
    /\ UNCHANGED <<classesFile, sessionFile, sessionFile2, ret, nops>>
    /\ BuildsFrame

\* The manifest keys of a session
KeysOf(entries, session_id) ==
    {k \in DOMAIN entries : entries[k].session_id = session_id}

\* dataset_builder.py:465-587 and routes.py:1302-1312: the photos are
\* written, then the manifest, which is what this build read plus its own
\* entries, and data.yaml; the run stores dataset_total
BuildFinish(t) ==
    /\ th[t].pc = "loop"
    /\ \E R \in {build_accumulated_dataset_for_session(
                    classesFile, SessionFiles[th[t].session_id], blobs,
                    [accum EXCEPT !.man = th[t].man], th[t].session_id, TRUE, Now)} :
          /\ accum' = R.c
          /\ classesFile' = R.cf
          /\ sessionFile' = IF th[t].session_id = "s1" THEN R.sf ELSE sessionFile
          /\ sessionFile2' = IF th[t].session_id = "s2" THEN R.sf ELSE sessionFile2
          /\ th' = [th EXCEPT ![t] = [pc |-> "built", session_id |-> th[t].session_id,
                                      wrote |-> KeysOf(ReadManifest(R.c), th[t].session_id)]]
          /\ ret' = [op |-> "build_session", err |-> R.err, incremental |-> TRUE,
                     before |-> ReadManifest(accum)]
    /\ tj' = set_job(tj, JobOf(t), PatchDatasetTotal)
    /\ nops' = nops + 1
    /\ BuildsFrame

NextBuilds ==
    \E t \in Threads :
        \/ \E session_id \in {"s1", "s2"} : TrainRequest(t, session_id)
        \/ BuildBegin(t)
        \/ BuildFinish(t)

SpecBuilds == InitBuilds /\ [][NextBuilds]_vars

\* No two runs are inside a build at the same time
OneBuildAtATime == ~(\A t \in Threads : th[t].pc = "loop")

\* The manifest holds the entries of every build that has ended
NoEntriesLost ==
    \A t \in Threads :
        th[t].pc = "built" => th[t].wrote \subseteq DOMAIN ReadManifest(accum)

\* C26: the training entry point serializes dataset builds: two builds never
\* write the corpus directory and the manifest at the same time, and the
\* manifest entries one build wrote are never lost to another build that
\* read the manifest earlier.
C26_BuildsSerialized ==
    (tj.t = "ledger" /\ DOMAIN th = Threads) => OneBuildAtATime /\ NoEntriesLost

\* The loss alone: the entries of a finished build are in the manifest
C26_NoEntriesLost == (\A t \in Threads : th[t].pc = "built") => NoEntriesLost

\* Two builds of different sessions have ended, each with entries of its own.
C26_BothBuilt ==
    /\ \A t \in Threads : th[t].pc = "built" /\ th[t].wrote # {}
    /\ th[1].session_id # th[2].session_id

-----------------------------------------------------------------------------
(* A train run that replaces the serving weights while threads call        *)
(* ModelManager.get: routes.py:1412-1458.  The run is thread Trainer of th; *)
(* the callers are those of the model above.                                *)

\* The threads that serve inference requests, and the thread of the run
InferThreads == {1, 2}
Trainer == Cardinality(InferThreads) + 1

\* The mtime of best.pt, written after the old serving weights
SrcMtime == OldWeights.mtime_ns + 1

\* A manager that has loaded the weights as they are at the start
CachedManager(use_seg) ==
    [FreshManager(use_seg) EXCEPT !._model = 1, !.loads = 1, !.loaded = <<"old">>,
                                  !._names = RegistryNames,
                                  !._weights_key = WK, !._use_seg = use_seg,
                                  !.fresh = FALSE]

\* The ledger of a process whose train run has ended training
TrainingLedger ==
    set_job(set_job(EmptyLedger("backend"), "train_1", Queued("train_1")),
            "train_1", PatchRunning)

InitRetrain ==
    /\ StoreIdle
    /\ rd = NoRead
    /\ classesFile = Missing
    /\ sessionFile = Missing
    /\ uploads = {}
    /\ ret = NoRet
    /\ nops = 0
    /\ th = [t \in InferThreads \cup {Trainer} |->
                IF t = Trainer THEN [pc |-> "train_ended"] ELSE IdleCaller]
    /\ sessionFile2 = Missing
    /\ blobs = <<>>
    /\ accum = [t |-> "none"]
    /\ arch = {}
    /\ gds = [t |-> "none"]
    /\ gb = [pc |-> "idle"]
    /\ mm \in {FreshManager(FALSE), CachedManager(FALSE)}
    /\ tj = TrainingLedger

RetrainFrame ==
    UNCHANGED <<storeVars, rd, classesFile, sessionFile, uploads, ret, nops,
                sessionFile2, blobs, accum, arch, gds, gb>>

\* shutil.copy2, routes.py:1418: the target is opened and truncated
CopyOpen ==
    /\ th[Trainer].pc = "train_ended"
    /\ mm' = [mm EXCEPT !.weights = [content |-> "torn", mtime_ns |-> SrcMtime + 1,
                                     size |-> 0]]
    /\ th' = [th EXCEPT ![Trainer].pc = "copy_write"]
    /\ UNCHANGED tj
    /\ RetrainFrame

\* shutil.copy2: the content is written; a model of the same architecture
\* has the size of the old one
CopyWrite ==
    /\ th[Trainer].pc = "copy_write"
    /\ mm' = [mm EXCEPT !.weights = [content |-> "new", mtime_ns |-> SrcMtime + 2,
                                     size |-> OldWeights.size]]
    /\ th' = [th EXCEPT ![Trainer].pc = "copy_stat"]
    /\ UNCHANGED tj
    /\ RetrainFrame

\* shutil.copy2: copystat gives the target the mtime of best.pt
CopyStat ==
    /\ th[Trainer].pc = "copy_stat"
    /\ mm' = [mm EXCEPT !.weights.mtime_ns = SrcMtime]
    /\ th' = [th EXCEPT ![Trainer].pc = "utime"]
    /\ UNCHANGED tj
    /\ RetrainFrame

\* routes.py:1420-1429: os.utime, whose failure is ignored, the log line and
\* set_job(model_path)
Utime(ok) ==
    /\ th[Trainer].pc = "utime"
    /\ mm' = [mm EXCEPT !.weights.mtime_ns = IF ok THEN SrcMtime + 3 ELSE @]
    /\ tj' = set_job(tj, "train_1", [model_path |-> "model.pt"])
    /\ th' = [th EXCEPT ![Trainer].pc = "invalidate"]
    /\ RetrainFrame

\* routes.py:1431-1435 and 763-781, model_manager.py:185: invalidate waits
\* for the lock; the call is best effort, an exception is swallowed
InvalidateAcquire(ok) ==
    /\ th[Trainer].pc = "invalidate"
    /\ IF ok
       THEN /\ mm._load_lock = 0
            /\ mm' = [mm EXCEPT !._load_lock = Trainer]
            /\ th' = [th EXCEPT ![Trainer].pc = "clear"]
       ELSE /\ th' = [th EXCEPT ![Trainer].pc = "finish"]
            /\ UNCHANGED mm
    /\ UNCHANGED tj
    /\ RetrainFrame

\* model_manager.py:186-189
InvalidateClear ==
    /\ th[Trainer].pc = "clear"
    /\ mm' = [mm EXCEPT !._model = 0, !._names = <<>>, !._weights_key = <<>>,
                        !._use_seg = FALSE]
    /\ th' = [th EXCEPT ![Trainer].pc = "release"]
    /\ UNCHANGED tj
    /\ RetrainFrame

\* model_manager.py:185-189: the end of the with block
InvalidateRelease ==
    /\ th[Trainer].pc = "release"
    /\ mm' = [mm EXCEPT !._load_lock = 0]
    /\ th' = [th EXCEPT ![Trainer].pc = "finish"]
    /\ UNCHANGED tj
    /\ RetrainFrame

\* routes.py:1437-1458: the version copy, the checksum, and set_job(done)
SetDone ==
    /\ th[Trainer].pc = "finish"
    /\ tj' = set_job(tj, "train_1", PatchDone)
    /\ th' = [th EXCEPT ![Trainer].pc = "train_done"]
    /\ UNCHANGED mm
    /\ RetrainFrame

NextRetrain ==
    \/ \E t \in InferThreads : GetSteps(t)
    \/ CopyOpen \/ CopyWrite \/ CopyStat
    \/ \E ok \in BOOLEAN : Utime(ok)
    \/ \E ok \in BOOLEAN : InvalidateAcquire(ok)
    \/ InvalidateClear \/ InvalidateRelease
    \/ SetDone

SpecRetrain == InitRetrain /\ [][NextRetrain]_vars

\* The content of the weight file that the model a caller got was loaded from
LoadedFrom(m, model) == IF model >= 1 THEN m.loaded[model] ELSE "none"

\* C21: once the train run has overwritten the serving weights and its job
\* is done, a get(load_if_needed=True) called from then on returns a model
\* loaded from the new weight file, never the model cached before, whatever
\* calls of get were interleaved with the overwrite and with invalidate().
C21_NewModelAfterDone ==
    \A t \in InferThreads :
        (th[t].after_done /\ th[t].load_if_needed) =>
            /\ th[t].pc # "raised"
            /\ th[t].pc = "done" =>
                  /\ tj.files["train_1"].status = "done"
                  /\ mm.weights.content = "new"
                  /\ LoadedFrom(mm, th[t].model) = "new"

\* A caller that took the key of the old file before the job was done made
\* a load of its own, and a caller that called after done got a model of the
\* new weights from a later load.
C21_Witness ==
    \E a, b \in InferThreads :
        /\ th[a].pc = "done" /\ th[a].after_done /\ th[a].load_if_needed
        /\ LoadedFrom(mm, th[a].model) = "new"
        /\ th[b].pc = "done" /\ ~th[b].after_done /\ th[b].load_if_needed
        /\ th[b].wk = WK
        /\ th[b].model >= 1 /\ th[b].model < th[a].model
        /\ mm._weights_key # <<>>

-----------------------------------------------------------------------------
(* Claims about the classes of saved labels (Spec) *)

\* session_store.py:618: the class name set_photo_labels registers for a bbox
ClassOfBBox(b) == IF _norm_cls(b.cls) # "" THEN _norm_cls(b.cls) ELSE PROCHEE

\* The classes of the saved bboxes that neither the registry nor the session
\* listed before the call.
NewClassKeys ==
    { _norm_key(ClassOfBBox(dedupe_bboxes(ret.patch.bboxes)[i])) :
        i \in DOMAIN dedupe_bboxes(ret.patch.bboxes) } \ ret.known_keys

SavedNewClass ==
    /\ ret.op = "set_photo_labels"
    /\ ret.err = ""
    /\ "bboxes" \in DOMAIN ret.patch
    /\ NewClassKeys # {}

\* C31: after set_photo_labels saves bboxes whose class name was not known
\* before, that class is both in the global class registry and in the session's
\* stored class list.
C31_NewClassInRegistryAndSession ==
    SavedNewClass =>
        /\ NewClassKeys \subseteq Keys(Registry)
        /\ NewClassKeys \subseteq Keys(Session.classes)

\* The half of C31 that holds: the new class is in the registry.
C31_NewClassInRegistry ==
    SavedNewClass => NewClassKeys \subseteq Keys(Registry)

\* set_photo_labels has saved a bbox of a class that was not known.
C31_SavedNewClass == SavedNewClass

-----------------------------------------------------------------------------
(* Claims about the order of the statuses of a run (SpecTrain) *)

\* The rank of a status in queued -> running -> done/error
StatusRank(job) ==
    IF job.status = "queued" THEN 0 ELSE IF job.status = "running" THEN 1 ELSE 2

\* No ledger write of the running process moves the status of a job backwards.
StatusMovesForward ==
    \A j \in DOMAIN tj.files :
        (j \in DOMAIN tj'.files /\ tj'.SERVER_BOOT_ID = tj.SERVER_BOOT_ID)
            => StatusRank(tj'.files[j]) >= StatusRank(tj.files[j])

\* C32: once a run has written done or error for its job, no later ledger
\* write of that run (progress callback or results-file monitor) changes the
\* status back to running: within one process the status of a job moves only
\* queued -> running -> done/error.
C32_StatusNeverBackToRunning == [][StatusMovesForward]_vars

\* The same for the runs whose progress comes from the registered callbacks,
\* without a monitor thread
C32_WithCallbacks == [][th.mon.pc = "none" => StatusMovesForward]_vars

\* The run has written done for its job while its monitor thread is still
\* about to write.
C32_DoneWithMonitorPending ==
    /\ th.mon.pc = "set_job"
    /\ th.run.pc = "end"
    /\ tj.files[th.run.job_id].status = "done"

-----------------------------------------------------------------------------
(* Claims about the splits of a corpus (SpecCorpus) *)

\* The file names of the images of one split
NamesOf(c, split) == {k[2] : k \in ImagesOf(c, split)}

\* No image of the corpus is in images/train and in images/val.
SplitsDisjoint(c) ==
    c.t = "corpus" => NamesOf(c, "train") \cap NamesOf(c, "val") = {}

\* C33: after any sequence of builds (session-scoped or global), no image
\* is present in both images/train and images/val of a corpus.
C33_SplitsDisjoint == SplitsDisjoint(accum) /\ SplitsDisjoint(gds)

\* Both corpora hold images after builds.
C33_BuiltBothCorpora ==
    /\ accum.t = "corpus" /\ DOMAIN accum.img # {}
    /\ gds.t = "corpus" /\ DOMAIN gds.img # {}

-----------------------------------------------------------------------------
(* Claims about the class indices of the label files (SpecRebuild) *)

\* dataset_builder.py:524-543: the bboxes of a photo the build writes a line
\* for, in the order of the lines
LineBBoxes(ph) ==
    IF ph.labels.decision = "defect"
    THEN SelectSeq(ph.labels.bboxes,
                   LAMBDA b : IsDict(b) /\ _bbox_ok(b) /\ ~FloatsRaise(b))
    ELSE <<>>

\* dataset_builder.py:531-532 and 471-473: the class name a line is written for
LineClass(b) ==
    LET c == _norm_cls(Or(Get(b, "cls", None), Or(Get(b, "class", None), PROCHEE)))
    IN  IF c # "" THEN c ELSE PROCHEE

\* The label file of a session photo in the accumulated corpus
LabelLinesOf(ph) ==
    LET dst == <<SplitName(split_is_val(ph.photo_id)), <<SID, ph.photo_id>> >>
    IN  IF dst \in DOMAIN accum.lbl THEN accum.lbl[dst] ELSE <<>>

\* The name data.yaml gives to a class index, None when it gives none
NameOfIndex(idx) ==
    IF accum.yaml.exists /\ idx + 1 \in DOMAIN accum.yaml.names
    THEN accum.yaml.names[idx + 1] ELSE None

\* Every line of the photo's label file names, through data.yaml, the class
\* of its bbox.
IndicesNameTheirClass(ph) ==
    Len(LabelLinesOf(ph)) = Len(LineBBoxes(ph))
        => \A i \in DOMAIN LabelLinesOf(ph) :
              NameOfIndex(LabelLinesOf(ph)[i][1]) = LineClass(LineBBoxes(ph)[i])

\* C34: in the session-scoped accumulated corpus, after any sequence of
\* builds, every class index in every label file refers, in the class list of
\* the data.yaml on disk, to the class name of the bbox it was written for,
\* also when a build adds a new class while it is running.
C34_IndicesMatchDescriptor ==
    (ret.op = "build_session" /\ ret.err = "")
        => \A i \in DOMAIN Session.photos :
              BlobOf(blobs, SID, Session.photos[i]).hash # None
                  => IndicesNameTheirClass(Session.photos[i])

\* The same for the builds during which the class list did not change
C34_WhenNoClassAdded ==
    (/\ ret.op = "build_session" /\ ret.err = ""
     /\ ret.classes_before = accum.yaml.names)
        => \A i \in DOMAIN Session.photos :
              BlobOf(blobs, SID, Session.photos[i]).hash # None
                  => IndicesNameTheirClass(Session.photos[i])

\* A build that added a class has returned and wrote label lines.
C34_BuildAddedClass ==
    /\ ret.op = "build_session" /\ ret.err = ""
    /\ ret.classes_before # accum.yaml.names
    /\ \E k \in DOMAIN accum.lbl : accum.lbl[k] # <<>>

-----------------------------------------------------------------------------
(* Claims about the class names a build resolves (SpecRebuild) *)

\* C39: build_accumulated_dataset_for_session resolves every bbox class name
\* to an index and never aborts the build because of a class name, including
\* a name that matches a session class only case-insensitively.
C39_BuildNeverAbortsOnClassName ==
    ret.op = "build_session" => ret.err # "KeyError"

\* A bbox the build writes a line for whose class name differs from a class
\* of the session only by case
OnlyCaseDiffers(session) ==
    \E i \in DOMAIN session.photos :
        \E j \in DOMAIN LineBBoxes(session.photos[i]) :
            LET c == LineClass(LineBBoxes(session.photos[i])[j])
            IN  /\ \A k \in DOMAIN session.classes : session.classes[k] # c
                /\ _norm_key(c) \in Keys(session.classes)

\* The same for the sessions without such a bbox
C39_WithoutCaseVariants ==
    (ret.op = "build_session" /\ ~OnlyCaseDiffers(Session)) => ret.err # "KeyError"

\* A build has resolved a class name the session did not list and returned.
C39_ResolvedNewClass ==
    /\ ret.op = "build_session" /\ ret.err = ""
    /\ ret.classes_before # accum.yaml.names

-----------------------------------------------------------------------------
(* Claims about get while the cache is cleared (SpecRetrain) *)

\* C36: a call get(load_if_needed=True) that returns without raising returns
\* a loaded model, never None, also when invalidate() runs concurrently
\* with it.
C36_GetReturnsLoadedModel ==
    \A t \in InferThreads :
        (th[t].pc = "done" /\ th[t].load_if_needed) => th[t].model # 0

\* The same for the calls that return while the cache has not been cleared
C36_WithoutInvalidate ==
    \A t \in InferThreads :
        (/\ th[t].pc = "done" /\ th[t].load_if_needed
         /\ th[Trainer].pc \in {"train_ended", "copy_write", "copy_stat", "utime",
                                "invalidate"})
            => th[t].model # 0

\* A caller went through the locked load and returned its model after the
\* cache had been cleared by the train run.
C36_LoadedAfterInvalidate ==
    \E t \in InferThreads :
        /\ th[t].pc = "done" /\ th[t].load_if_needed /\ th[t].need_reload
        /\ th[t].model >= 1
        /\ th[Trainer].pc = "train_done"
        /\ mm._model = th[t].model

-----------------------------------------------------------------------------
(* get under the strict class check (SpecStrict) *)

\* A manager under INFER_STRICT_MODEL_CLASSES whose weight file carries the
\* class list names
StrictManager(m, names) ==
    [m EXCEPT !.INFER_STRICT_MODEL_CLASSES = TRUE, !.model_names = names]

InitStrict ==
    /\ StoreIdle
    /\ rd = NoRead
    /\ classesFile = Missing
    /\ sessionFile = Missing
    /\ uploads = {}
    /\ ret = NoRet
    /\ nops = 0
    /\ th = [t \in Callers |-> IdleCaller]
    /\ sessionFile2 = Missing
    /\ blobs = <<>>
    /\ accum = [t |-> "none"]
    /\ arch = {}
    /\ gds = [t |-> "none"]
    /\ gb = [pc |-> "idle"]
    /\ mm \in {StrictManager(m, names) :
                 m \in {FreshManager(FALSE), StaleManager(FALSE)}, names \in ModelNames}
    /\ tj = [t |-> "none"]

SpecStrict == InitStrict /\ [][NextModel]_vars

\* The class names of the weight file differ from the registry.
Mismatch == NormNames(mm.registry) # NormNames(mm.model_names)

\* C35: with strict class checking enabled, get never returns a model whose
\* class names differ from the registry: while the mismatch persists every
\* call to get fails with the mismatch error, not only the call that loaded
\* the model.
C35_StrictNeverReturnsMismatch ==
    (mm.INFER_STRICT_MODEL_CLASSES /\ Mismatch)
        => \A t \in Callers :
              ~(th[t].pc = "done" /\ th[t].load_if_needed /\ th[t].model >= 1)

\* With matching class names every call that returns has the loaded model.
C35_MatchingModelReturned ==
    (mm.INFER_STRICT_MODEL_CLASSES /\ ~Mismatch)
        => \A t \in Callers :
              /\ th[t].pc # "raised"
              /\ (th[t].pc = "done" /\ th[t].load_if_needed) => th[t].model >= 1

\* The load of a mismatching model has raised in one caller.
C35_LoadRaised ==
    /\ mm.INFER_STRICT_MODEL_CLASSES /\ Mismatch
    /\ \E t \in Callers : th[t].pc = "raised"
    /\ mm._model >= 1

-----------------------------------------------------------------------------
(* Claims about what a rotation keeps (SpecRotate) *)

\* The archive directory rotate reports holds the corpus as it was.
ArchivedCorpusKept ==
    \E a \in arch :
        /\ a.name = ret.archived_to
        /\ a.c.img = ret.corpus.img
        /\ a.c.lbl = ret.corpus.lbl
        /\ a.c.man = ret.corpus.man

\* C37: rotate never loses the corpus: for every allowed keep_archives
\* value, after rotate returns, the images, labels and manifest of the
\* pre-rotate corpus are present under the archive path it reports as
\* archived_to.
C37_RotateKeepsCorpus == ret.op = "rotate" => ArchivedCorpusKept

\* The same for the rotations that do not name the new archive among the
\* removed ones
C37_UnlessRemoved ==
    (ret.op = "rotate" /\ ret.archived_to \notin ret.removed_archives)
        => ArchivedCorpusKept

\* A corpus with images was rotated into an archive that is on disk.
C37_FilledCorpusArchived ==
    /\ ret.op = "rotate"
    /\ DOMAIN ret.corpus.img # {}
    /\ ArchivedCorpusKept

-----------------------------------------------------------------------------
(* Listing after an interrupted set_job (SpecListing) *)

\* train_job_store.py:166-184: the process is killed inside set_job after the
\* job file was written and before _touch_index has saved the index; then
\* it is started again
KilledInSetJob(job_id, patch) ==
    /\ ReadStep
    /\ patch = Queued(job_id) \/ job_id \in DOMAIN tj.files
    /\ tj' = [WriteJob(tj, job_id, patch) EXCEPT !.SERVER_BOOT_ID = @ + 1,
                                                 !.pid = @ + 1, !.JOBS_LOCK = 0]
    /\ ret' = [op |-> "killed", job_id |-> job_id]

NextListing ==
    \/ NextRead
    \/ \E job_id \in JobIds : \E patch \in ReadPatches(job_id) :
          KilledInSetJob(job_id, patch)

SpecListing == InitRead /\ [][NextListing]_vars

\* The job ids of the records list_jobs returned
Listed == {ret.out[i].job_id : i \in DOMAIN ret.out}

\* C38: every job that has a persisted record is returned by list_jobs when
\* limit is at least the number of jobs, also after a crash between writing
\* the job record and updating the index.
C38_EveryJobListed ==
    (ret.op = "list_jobs" /\ ret.limit >= Cardinality(DOMAIN ret.files))
        => DOMAIN ret.files \subseteq Listed

\* The same for the calls that find no readable index or an index that names
\* every job file
C38_WhenIndexNamesAll ==
    (/\ ret.op = "list_jobs" /\ ret.limit >= Cardinality(DOMAIN ret.files)
     /\ \/ _load_index(ret.index) = <<>>
        \/ DOMAIN ret.files \subseteq SeqToSet(_load_index(ret.index)))
        => DOMAIN ret.files \subseteq Listed

\* list_jobs has returned two jobs from an index that names both.
C38_ListedBoth ==
    /\ ret.op = "list_jobs"
    /\ Cardinality(Listed) = 2
    /\ _load_index(ret.index) # <<>>

-----------------------------------------------------------------------------
(* Claims about the manifest under a dry-run prune (SpecCorpus) *)

\* Every entry of the manifest of corpus c names an image and a label on disk.
NoBrokenRefs(c) ==
    \A k \in DOMAIN ReadManifest(c) :
        /\ ReadManifest(c)[k].image \in DOMAIN c.img
        /\ ReadManifest(c)[k].label \in DOMAIN c.lbl

\* C40: prune with dry_run=true leaves the persisted manifest unchanged: the
\* manifest file after a dry-run prune equals the manifest file before it,
\* also when some manifest entries reference files that do not exist.
C40_DryRunKeepsManifest ==
    (ret.op = "prune" /\ ret.dry_run) => accum.man = ret.before.man

\* The same for a manifest whose entries all name files on disk
C40_WhenNoBrokenRefs ==
    (ret.op = "prune" /\ ret.dry_run /\ NoBrokenRefs(ret.before))
        => accum.man = ret.before.man

\* A dry run that counted an image for removal has left a manifest with
\* entries as it was.
C40_DryRunOnSoundManifest ==
    /\ ret.op = "prune" /\ ret.dry_run
    /\ ret.removed_images > 0
    /\ DOMAIN ReadManifest(ret.before) # {}
    /\ NoBrokenRefs(ret.before)
    /\ accum.man = ret.before.man

====
